---- MODULE Spec2Model ----
(***************************************************************************)
(* Model of the calendar synchronisation engine: SyncService (syncAll,     *)
(* syncSource, forceResync), the provider cache of CalendarAggregator, the  *)
(* SyncState and Event stores, and the Google / remote iCal providers.      *)
(* JavaScript runs one handler at a time up to its next awaited I/O call,   *)
(* so every action below is one such run: from a call or from the           *)
(* completion of an awaited provider call to the next awaited call or to    *)
(* the return of the operation.                                             *)
(***************************************************************************)
EXTENDS Integers, Sequences, FiniteSets, TLC

\* ---------------------------------------------------------------- bounds
\* payloads an event can carry
MaxVal == 1
\* changes the remotes undergo in all
MaxVer == 2
\* calls of syncAll, syncSource and forceResync made in all
MaxCalls == 2

Procs == {1, 2}
Sources == {1, 2}
ExtIds == {1, 2}

\* sources.type of the two sources of the model (schema.sql CHECK list)
SourceType == (1 :> "google") @@ (2 :> "ical_remote")

Null == 0

\* ------------------------------------------------------- raw remote events
\* A raw event carries a payload (val) and may lack a start time.
Absent == [val |-> 0, start |-> FALSE]
Raws == {[val |-> v, start |-> TRUE] : v \in 1..MaxVal} \cup {[val |-> 1, start |-> FALSE]}

\* ------------------------------------------------------------- helpers
RECURSIVE SetToSortedSeq(_)
SetToSortedSeq(S) ==
  IF S = {} THEN <<>>
  ELSE LET m == CHOOSE x \in S : \A y \in S : x <= y
       IN <<m>> \o SetToSortedSeq(S \ {m})

Range(q) == {q[i] : i \in 1..Len(q)}

\* JavaScript `x || null` on a cursor value: a falsy value is stored as null
OrNull(x) == IF x = Null THEN Null ELSE x

\* JavaScript `x || null` on an error message: null (written "null") and the empty
\* string are stored as null
MsgOrNull(x) == IF x \in {"", "null"} THEN "null" ELSE x

\* ------------------------------------------------------ sync_state store
NoRow == [token |-> Null, etag |-> Null, status |-> "absent", err |-> "null", count |-> 0]

\* SyncState.upsert: the row is replaced by the given data (ON CONFLICT DO UPDATE)
SyncStateUpsert(cur, s, data) ==
  [cur EXCEPT ![s] = [token |-> OrNull(data.token), etag |-> OrNull(data.etag),
                      status |-> data.status, err |-> MsgOrNull(data.err), count |-> data.count]]

\* a markSuccess that carries the stored cursor forward in place of the new one
MarkSuccess_Stale(cur, s, n, tok, tag) ==
  SyncStateUpsert(cur, s, [token |-> cur[s].token, etag |-> cur[s].etag, status |-> "success",
                           err |-> "null", count |-> n])

\* SyncState.markSuccess
MarkSuccess(cur, s, n, tok, tag) ==
  SyncStateUpsert(cur, s, [token |-> tok, etag |-> tag, status |-> "success", err |-> "null", count |-> n])

\* a markError that writes the error without carrying the cursor forward
MarkError_Clears(cur, s, msg) ==
  SyncStateUpsert(cur, s, [token |-> Null, etag |-> Null, status |-> "error",
                           err |-> msg, count |-> cur[s].count])

MarkError(cur, s, msg) ==
  SyncStateUpsert(cur, s, [token |-> cur[s].token, etag |-> cur[s].etag, status |-> "error",
                           err |-> msg, count |-> cur[s].count])

MarkPending(cur, s) ==
  SyncStateUpsert(cur, s, [token |-> cur[s].token, etag |-> cur[s].etag, status |-> "pending",
                           err |-> "null", count |-> cur[s].count])

\* a database opened without the foreign_keys pragma
ForeignKeys_Off == FALSE

\* getDatabase: db.pragma('foreign_keys = ON')
ForeignKeysOn == TRUE

\* ----------------------------------------------------------- events store
\* A stored row: surrogate id (AUTOINCREMENT), source, external id, payload.
RowsOf(ev, s) == {r \in ev : r.src = s}
StoredIds(ev, s) == {r.ext : r \in RowsOf(ev, s)}

\* a deleteBySourceId that deletes nothing
DeleteBySourceId_Noop(ev, s) == ev

\* a DELETE FROM events without the WHERE clause
DeleteBySourceId_All(ev, s) == {}

DeleteBySourceId(ev, s) == ev \ RowsOf(ev, s)

DeleteByExternalIds(ev, s, ids) == {r \in ev : ~(r.src = s /\ r.ext \in Range(ids))}

\* an insert without the ON CONFLICT clause and without the UNIQUE constraint
UpsertRow_AlwaysInsert(st, s, e) ==
  [ev |-> st.ev \cup {[rid |-> st.nid, src |-> s, ext |-> e.ext, val |-> e.val]},
   nid |-> st.nid + 1]

\* INSERT OR REPLACE: the conflicting row is deleted and a new one inserted
UpsertRow_Replace(st, s, e) ==
  [ev |-> {r \in st.ev : ~(r.src = s /\ r.ext = e.ext)}
          \cup {[rid |-> st.nid, src |-> s, ext |-> e.ext, val |-> e.val]},
   nid |-> st.nid + 1]

\* One INSERT ... ON CONFLICT(source_id, external_id) DO UPDATE
UpsertRow(st, s, e) ==
  IF \E r \in st.ev : r.src = s /\ r.ext = e.ext
  THEN [st EXCEPT !.ev = {IF r.src = s /\ r.ext = e.ext THEN [r EXCEPT !.val = e.val] ELSE r : r \in st.ev}]
  ELSE [ev |-> st.ev \cup {[rid |-> st.nid, src |-> s, ext |-> e.ext, val |-> e.val]},
        nid |-> st.nid + 1]

RECURSIVE UpsertMany(_, _, _)
UpsertMany(st, s, es) ==
  IF es = <<>> THEN st ELSE UpsertMany(UpsertRow(st, s, Head(es)), s, Tail(es))

\* Event.bulkUpsert: one transaction; a failing statement (start_datetime NOT NULL,
\* the foreign key to a deleted source, or an I/O fault) rolls the whole call back.
BulkUpsertFails(es, srcGone, fault) ==
  \/ \E i \in 1..Len(es) : ~es[i].start
  \/ srcGone
  \/ fault = "upsert"


\* ------------------------------------------------------------ Sync Result
NoResult == [unchanged |-> FALSE, fullRefresh |-> FALSE, events |-> <<>>, deleted |-> <<>>,
             token |-> Null, etag |-> Null]

\* a reconciliation that upserts the result's events before it deletes the deleted ids
Reconcile_UpsertFirst(ev, nid, s, res, srcGone, fault) ==
  LET ev1 == IF res.fullRefresh THEN DeleteBySourceId(ev, s) ELSE ev
      st2 == IF Len(res.events) > 0 THEN UpsertMany([ev |-> ev1, nid |-> nid], s, res.events)
             ELSE [ev |-> ev1, nid |-> nid]
      ev3 == IF Len(res.deleted) > 0 THEN DeleteByExternalIds(st2.ev, s, res.deleted) ELSE st2.ev
  IN IF Len(res.events) > 0 /\ BulkUpsertFails(res.events, srcGone, fault)
     THEN [ev |-> ev1, nid |-> nid, thrown |-> TRUE, msg |-> "E"]
     ELSE [ev |-> ev3, nid |-> st2.nid, thrown |-> FALSE, msg |-> "none"]

\* SyncService.syncSource, the reconciliation of a result that is not `unchanged`:
\* deleteBySourceId, deleteByExternalIds and bulkUpsert are three separate commits.
\* fault names the store write that fails with an I/O error ("none": no fault).
Reconcile(ev, nid, s, res, srcGone, fault) ==
  LET ev1 == IF res.fullRefresh THEN DeleteBySourceId(ev, s) ELSE ev
      ev2 == IF Len(res.deleted) > 0 THEN DeleteByExternalIds(ev1, s, res.deleted) ELSE ev1
      st3 == IF Len(res.events) > 0 THEN UpsertMany([ev |-> ev2, nid |-> nid], s, res.events)
             ELSE [ev |-> ev2, nid |-> nid]
  IN IF res.fullRefresh /\ fault = "deleteAll"
     THEN [ev |-> ev, nid |-> nid, thrown |-> TRUE, msg |-> "E"]
     ELSE IF Len(res.deleted) > 0 /\ fault = "deleteIds"
     THEN [ev |-> ev1, nid |-> nid, thrown |-> TRUE, msg |-> "E"]
     ELSE IF Len(res.events) > 0 /\ BulkUpsertFails(res.events, srcGone, fault)
          THEN [ev |-> ev2, nid |-> nid, thrown |-> TRUE,
                msg |-> IF fault # "upsert" /\ ~srcGone /\ \E i \in 1..Len(res.events) : ~res.events[i].start
                        THEN "NoStart" ELSE "E"]
     ELSE [ev |-> st3.ev, nid |-> st3.nid, thrown |-> FALSE, msg |-> "none"]

\* --------------------------------------------------------------- providers
\* Google remote: items by id, a version counter, and the version of each id's last change.
GoogleInit == [items |-> [i \in ExtIds |-> Absent], ver |-> 0, chg |-> [i \in ExtIds |-> 0]]
\* Remote iCal feed: the VEVENTs in file order (a UID may occur more than once) and a version.
FeedInit == [entries |-> <<>>, ver |-> 0]

TokenOf(g) == g.ver + 1
EtagOf(f) == f.ver + 1

NormEvent(i, raw) == [ext |-> i, val |-> raw.val, start |-> raw.start]

RECURSIVE GoogleItems(_, _, _)
\* the events.list items for the ids of `ids` (ascending), split as GoogleCalendarProvider.sync does
GoogleItems(g, ids, acc) ==
  IF ids = <<>> THEN acc
  ELSE LET i == Head(ids)
       IN GoogleItems(g, Tail(ids),
            IF g.items[i] = Absent THEN [acc EXCEPT !.deleted = Append(@, i)]
            ELSE [acc EXCEPT !.events = Append(@, NormEvent(i, g.items[i]))])

\* GoogleCalendarService.syncEvents (answer 200) followed by GoogleCalendarProvider.sync:
\* with a token the changes since the token, without one the events the calendar holds.
GoogleSync(g, req) ==
  LET ids == IF req = Null THEN {i \in ExtIds : g.items[i] # Absent}
             ELSE {i \in ExtIds : g.chg[i] >= req}
  IN [GoogleItems(g, SetToSortedSeq(ids), NoResult) EXCEPT !.token = TokenOf(g)]

FeedEvents(f) == [k \in 1..Len(f.entries) |-> NormEvent(f.entries[k].uid, f.entries[k].raw)]

\* ICalRemoteProvider.normalizeEvent reads startDate.isDate: a VEVENT without DTSTART throws
FeedParseFails(f) == \E k \in 1..Len(f.entries) : ~f.entries[k].raw.start

\* ICalRemoteProvider.sync (the HTTP exchange succeeded and the feed parsed)
ICalRemoteSync(f, etag) ==
  IF etag # Null /\ etag = EtagOf(f)
  THEN [NoResult EXCEPT !.unchanged = TRUE, !.etag = etag]
  ELSE [NoResult EXCEPT !.fullRefresh = TRUE, !.events = FeedEvents(f), !.etag = EtagOf(f)]

\* ------------------------------------------------------------------- state
VARIABLES
  srcs,       \* sources table: "enabled", "disabled" or "deleted" per source id
  cursor,     \* sync_state table: one row per source, NoRow when there is none
  events,     \* events table: a set of rows
  nextId,     \* next AUTOINCREMENT id of the events table
  providers,  \* CalendarAggregator.providers: the sources with a cached provider
  syncing,    \* SyncService.syncing
  remote,     \* what each remote calendar holds
  gone,       \* per source: sync tokens up to this value are answered 410
  proc,       \* the asynchronous calls in progress
  calls,      \* the number of calls made so far
  rec,        \* the reconciler run on its own: the result applied, how often, and the rows it left
  norm,       \* normalizeEvent run on its own: the provider kind, the raw event and what the runs returned
  cond,       \* a conditional-fetch provider run on its own: the source, the stored validator, the result
  cache,      \* CalendarAggregator run on its own: the providers map and the getProvider calls
  run,        \* syncSource run statement by statement: the call the event loop is running and each call's position
  svc,        \* a calendar service's syncEvents run on its own: the remote's answers and the requests made
  desc        \* Source Descriptors that are edited while providers are cached

vars == <<srcs, cursor, events, nextId, providers, syncing, remote, gone, proc, calls, rec, norm, cond, cache, run, svc, desc>>

NoRes == [kind |-> "none", unchanged |-> FALSE, count |-> 0, err |-> "none"]
IdleProc == [op |-> "none", pc |-> "idle", src |-> 0, pre |-> NoRow, snap |-> NoRow, req |-> Null,
             queue |-> <<>>, enum |-> <<>>, success |-> <<>>, failed |-> <<>>, res |-> NoRes]

NoRec == [n |-> 0, src |-> 0, res |-> NoResult, before |-> {}, once |-> {}, thrown |-> FALSE]
\* the three components below take part only in the specifications of their own
NoNorm == [kind |-> "none", src |-> 0, raw |-> [id |-> Null, status |-> "missing", start |-> FALSE], outs |-> <<>>]
NoCond == [kind |-> "none", ver |-> 0, lastEtag |-> Null, call |-> <<>>]
NoCache == [types |-> <<>>, map |-> <<>>, made |-> 0, call |-> <<>>]
NoRun == [running |-> 0, call |-> <<>>]
NoSvc == [kind |-> "none", pc |-> "idle"]
NoDesc == [rows |-> <<>>, map |-> <<>>, call |-> <<>>]

Init ==
  /\ srcs \in [Sources -> {"enabled", "disabled"}]
  /\ cursor = [s \in Sources |-> NoRow]
  /\ events = {}
  /\ nextId = 1
  /\ providers = {}
  /\ syncing = FALSE
  /\ remote = [s \in Sources |-> IF SourceType[s] = "google" THEN GoogleInit ELSE FeedInit]
  /\ gone = [s \in Sources |-> 0]
  /\ proc = [p \in Procs |-> IdleProc]
  /\ calls = 0
  /\ run = NoRun
  /\ svc = NoSvc
  /\ desc = NoDesc
  /\ rec = NoRec
  /\ norm = NoNorm
  /\ cond = NoCond
  /\ cache = NoCache

\* ------------------------------------------------- syncSource, first part
\* SyncService.syncSource from its call to the first awaited I/O: the existence and
\* enabled checks, markPending, the read of the sync state, and getProvider up to
\* initialize() (awaited I/O for google, nothing to await for ical_remote).
BeginSync(s, cur, prov) ==
  IF srcs[s] = "deleted"
  THEN [thrown |-> TRUE, err |-> "SourceNotFound", cursor |-> cur, providers |-> prov,
        pc |-> "done", pre |-> NoRow, snap |-> NoRow, req |-> Null]
  ELSE IF srcs[s] = "disabled"
  THEN [thrown |-> TRUE, err |-> "SourceDisabled", cursor |-> cur, providers |-> prov,
        pc |-> "done", pre |-> NoRow, snap |-> NoRow, req |-> Null]
  ELSE LET cur1 == MarkPending(cur, s)
       IN IF s \in prov
          THEN [thrown |-> FALSE, err |-> "none", cursor |-> cur1, providers |-> prov,
                pc |-> "fetch", pre |-> cur[s], snap |-> cur1[s], req |-> cur1[s].token]
          ELSE IF SourceType[s] = "google"
          THEN [thrown |-> FALSE, err |-> "none", cursor |-> cur1, providers |-> prov,
                pc |-> "init", pre |-> cur[s], snap |-> cur1[s], req |-> Null]
          ELSE [thrown |-> FALSE, err |-> "none", cursor |-> cur1, providers |-> prov \cup {s},
                pc |-> "fetch", pre |-> cur[s], snap |-> cur1[s], req |-> cur1[s].token]

\* a batch loop that a failing source aborts
RunBatch_Abort(rest, succ, fail, cur, prov) ==
  IF rest = <<>> \/ fail # <<>>
  THEN [finished |-> TRUE, cursor |-> cur, providers |-> prov, success |-> succ, failed |-> fail,
        src |-> 0, pc |-> "done", pre |-> NoRow, snap |-> NoRow, req |-> Null, queue |-> <<>>]
  ELSE LET b == BeginSync(Head(rest), cur, prov)
       IN IF b.thrown
          THEN [finished |-> TRUE, cursor |-> b.cursor, providers |-> b.providers, success |-> succ,
                failed |-> Append(fail, Head(rest)), src |-> 0, pc |-> "done", pre |-> NoRow,
                snap |-> NoRow, req |-> Null, queue |-> <<>>]
          ELSE [finished |-> FALSE, cursor |-> b.cursor, providers |-> b.providers,
                success |-> succ, failed |-> fail, src |-> Head(rest), pc |-> b.pc,
                pre |-> b.pre, snap |-> b.snap, req |-> b.req, queue |-> Tail(rest)]

\* a batch loop that marks every source still to come as pending before it awaits the first
RunBatch_Eager(rest, succ, fail, cur, prov) ==
  IF rest = <<>>
  THEN [finished |-> TRUE, cursor |-> cur, providers |-> prov, success |-> succ, failed |-> fail,
        src |-> 0, pc |-> "done", pre |-> NoRow, snap |-> NoRow, req |-> Null, queue |-> <<>>]
  ELSE LET curAll == [s \in Sources |->
                        IF \E k \in 1..Len(rest) : rest[k] = s THEN MarkPending(cur, s)[s] ELSE cur[s]]
           b == BeginSync(Head(rest), curAll, prov)
       IN IF b.thrown
          THEN [finished |-> TRUE, cursor |-> b.cursor, providers |-> b.providers, success |-> succ,
                failed |-> Append(fail, Head(rest)), src |-> 0, pc |-> "done", pre |-> NoRow,
                snap |-> NoRow, req |-> Null, queue |-> <<>>]
          ELSE [finished |-> FALSE, cursor |-> b.cursor, providers |-> b.providers,
                success |-> succ, failed |-> fail, src |-> Head(rest), pc |-> b.pc,
                pre |-> b.pre, snap |-> b.snap, req |-> b.req, queue |-> Tail(rest)]

RECURSIVE RunBatch(_, _, _, _, _)
\* SyncService.syncAll, the for loop from the source at the head of `rest` up to the next
\* awaited provider call, or to the end of the loop
RunBatch(rest, succ, fail, cur, prov) ==
  IF rest = <<>>
  THEN [finished |-> TRUE, cursor |-> cur, providers |-> prov, success |-> succ, failed |-> fail,
        src |-> 0, pc |-> "done", pre |-> NoRow, snap |-> NoRow, req |-> Null, queue |-> <<>>]
  ELSE LET b == BeginSync(Head(rest), cur, prov)
       IN IF b.thrown
          THEN RunBatch(Tail(rest), succ, Append(fail, Head(rest)), b.cursor, b.providers)
          ELSE [finished |-> FALSE, cursor |-> b.cursor, providers |-> b.providers,
                success |-> succ, failed |-> fail, src |-> Head(rest), pc |-> b.pc,
                pre |-> b.pre, snap |-> b.snap, req |-> b.req, queue |-> Tail(rest)]


\* --------------------------------------------------------------- calls
\* A call is made on a free slot of the event loop; the slots are taken in order
\* (slots are interchangeable), and the model stops making calls after MaxCalls.
CanCall(p) ==
  /\ proc[p].pc \in {"idle", "done"}
  /\ \A q \in Procs : q < p => proc[q].op # "none"
  /\ calls < MaxCalls

\* POST /api/sync/:sourceId -> SyncService.syncSource(s)
SyncSourceCall(p, s) ==
  /\ CanCall(p)
  /\ calls' = calls + 1
  /\ UNCHANGED <<rec, norm, cond, cache, run, svc, desc>>
  /\ LET b == BeginSync(s, cursor, providers)
     IN /\ cursor' = b.cursor
        /\ providers' = b.providers
        /\ proc' = [proc EXCEPT ![p] =
              IF b.thrown
              THEN [IdleProc EXCEPT !.op = "syncSource", !.pc = "done", !.src = s,
                                    !.res = [NoRes EXCEPT !.kind = "threw", !.err = b.err]]
              ELSE [IdleProc EXCEPT !.op = "syncSource", !.pc = b.pc, !.src = s,
                                    !.pre = b.pre, !.snap = b.snap, !.req = b.req]]
  /\ UNCHANGED <<srcs, events, nextId, syncing, remote, gone>>

\* POST /api/sync/:sourceId/force -> SyncService.forceResync(s)
ForceResyncCall(p, s) ==
  /\ CanCall(p)
  /\ calls' = calls + 1
  /\ UNCHANGED <<rec, norm, cond, cache, run, svc, desc>>
  /\ IF srcs[s] = "deleted"
     THEN /\ proc' = [proc EXCEPT ![p] =
                [IdleProc EXCEPT !.op = "forceResync", !.pc = "done", !.src = s,
                                 !.res = [NoRes EXCEPT !.kind = "threw", !.err = "SourceNotFound"]]]
          /\ UNCHANGED <<cursor, providers, events>>
     ELSE LET cur0 == SyncStateUpsert(cursor, s, [token |-> Null, etag |-> Null, status |-> "pending",
                                                   err |-> "null", count |-> 0])
              b == BeginSync(s, cur0, providers \ {s})
          IN /\ cursor' = b.cursor
             /\ providers' = b.providers
             /\ events' = DeleteBySourceId(events, s)
             /\ proc' = [proc EXCEPT ![p] =
                   IF b.thrown
                   THEN [IdleProc EXCEPT !.op = "forceResync", !.pc = "done", !.src = s,
                                         !.res = [NoRes EXCEPT !.kind = "threw", !.err = b.err]]
                   ELSE [IdleProc EXCEPT !.op = "forceResync", !.pc = b.pc, !.src = s,
                                         !.pre = b.pre, !.snap = b.snap, !.req = b.req]]
  /\ UNCHANGED <<srcs, nextId, syncing, remote, gone>>

\* a syncAll that never sees the flag
SyncInProgress_Never == FALSE

\* syncAll: `if (this.syncing)`
SyncInProgress == syncing

\* a syncAll that leaves the flag set when it finishes
Finally_Skip == TRUE

\* syncAll: the finally block, `this.syncing = false`
Finally == FALSE

\* an unchanged sync that writes no count
UnchangedCount_Zero(snap) == 0

\* syncSource, unchanged result: `syncState?.events_count || 0`
UnchangedCount(snap) == snap.count

\* Source.findEnabled: the enabled sources in rowid order
FindEnabled == SetToSortedSeq({s \in Sources : srcs[s] = "enabled"})

\* SyncScheduler.runSync or POST /api/sync -> SyncService.syncAll()
SyncAllCall(p) ==
  /\ CanCall(p)
  /\ calls' = calls + 1
  /\ UNCHANGED <<rec, norm, cond, cache, run, svc, desc>>
  /\ IF SyncInProgress
     THEN /\ proc' = [proc EXCEPT ![p] =
                [IdleProc EXCEPT !.op = "syncAll", !.pc = "done",
                                 !.res = [NoRes EXCEPT !.kind = "skipped"]]]
          /\ UNCHANGED <<cursor, providers, syncing>>
     ELSE \E enumFails \in BOOLEAN :
          IF enumFails
          THEN \* Source.findEnabled throws: the finally block clears the flag
               /\ proc' = [proc EXCEPT ![p] =
                     [IdleProc EXCEPT !.op = "syncAll", !.pc = "done",
                                      !.res = [NoRes EXCEPT !.kind = "threw", !.err = "other"]]]
               /\ syncing' = Finally
               /\ UNCHANGED <<cursor, providers>>
          ELSE LET b == RunBatch(FindEnabled, <<>>, <<>>, cursor, providers)
               IN /\ cursor' = b.cursor
                  /\ providers' = b.providers
                  /\ syncing' = (IF b.finished THEN Finally ELSE TRUE)
                  /\ proc' = [proc EXCEPT ![p] =
                        [IdleProc EXCEPT !.op = "syncAll", !.pc = b.pc, !.src = b.src,
                                         !.pre = b.pre, !.snap = b.snap, !.req = b.req, !.queue = b.queue,
                                         !.enum = FindEnabled, !.success = b.success,
                                         !.failed = b.failed,
                                         !.res = IF b.finished THEN [NoRes EXCEPT !.kind = "returned"]
                                                 ELSE NoRes]]
  /\ UNCHANGED <<srcs, events, nextId, remote, gone>>

\* ------------------------------------------------ end of a sync attempt
\* a syncSource that clears the flag when it ends, as the finally block of syncAll does
SyncSourceFlag_Clears(flag) == FALSE

\* syncSource called on its own has no statement on this.syncing: the flag stays
SyncSourceFlag(flag) == flag

\* The attempt of proc[p] on its source ended with outcome `out`, the stores being
\* (cur, ev, nid) and the cache prov: syncSource and forceResync return or throw to
\* their caller; syncAll records the outcome and goes on with the next source.
Complete(p, cur, ev, nid, prov, out) ==
  /\ events' = ev
  /\ nextId' = nid
  /\ IF proc[p].op = "syncAll"
     THEN LET s == proc[p].src
              succ == IF out.kind = "threw" THEN proc[p].success
                      ELSE Append(proc[p].success, [src |-> s, count |-> out.count,
                                                    unchanged |-> out.unchanged])
              fail == IF out.kind = "threw" THEN Append(proc[p].failed, s) ELSE proc[p].failed
              b == RunBatch(proc[p].queue, succ, fail, cur, prov)
          IN /\ cursor' = b.cursor
             /\ providers' = b.providers
             /\ syncing' = (IF b.finished THEN Finally ELSE syncing)
             /\ proc' = [proc EXCEPT ![p] =
                   [@ EXCEPT !.pc = b.pc, !.src = b.src, !.pre = b.pre, !.snap = b.snap, !.req = b.req,
                             !.queue = b.queue, !.success = b.success, !.failed = b.failed,
                             !.res = IF b.finished THEN [NoRes EXCEPT !.kind = "returned"] ELSE NoRes]]
     ELSE /\ cursor' = cur
          /\ providers' = prov
          /\ syncing' = SyncSourceFlag(syncing)
          /\ proc' = [proc EXCEPT ![p] = [@ EXCEPT !.pc = "done", !.res = out]]

Threw == [NoRes EXCEPT !.kind = "threw", !.err = "other"]

\* error.message of what a provider call throws: some text, or the empty string
ThrownMessages == {"E", ""}

\* The catch block of syncSource: markError, then rethrow. For a source deleted
\* meanwhile the INSERT of markError violates the foreign key and throws itself: that
\* error leaves the catch block in place of the caught one.
Fail(p, ev, nid, prov, msgs) ==
  \E msg \in msgs :
    LET s == proc[p].src
        fk == srcs[s] = "deleted" /\ ForeignKeysOn
        cur1 == IF fk THEN cursor ELSE MarkError(cursor, s, msg)
    IN Complete(p, cur1, ev, nid, prov, IF fk THEN [Threw EXCEPT !.err = "ForeignKey"] ELSE Threw)

\* provider.initialize() of getProvider returns or throws (google)
InitDone(p) ==
  /\ proc[p].pc = "init"
  /\ \E ok \in BOOLEAN :
       IF ok
       THEN /\ providers' = providers \cup {proc[p].src}
            /\ proc' = [proc EXCEPT ![p] = [@ EXCEPT !.pc = "fetch", !.req = proc[p].snap.token]]
            /\ UNCHANGED <<cursor, events, nextId, syncing>>
       ELSE Fail(p, events, nextId, providers, ThrownMessages)
  /\ UNCHANGED <<srcs, remote, gone, calls, rec, norm, cond, cache, run, svc, desc>>

\* GoogleCalendarService.syncEvents: the remote answers 410 to an expired token and
\* the service calls itself again without a token
FetchGone(p) ==
  /\ proc[p].pc = "fetch"
  /\ SourceType[proc[p].src] = "google"
  /\ proc[p].req # Null
  /\ proc[p].req <= gone[proc[p].src]
  /\ proc' = [proc EXCEPT ![p] = [@ EXCEPT !.req = Null]]
  /\ UNCHANGED <<srcs, cursor, events, nextId, providers, syncing, remote, gone, calls, rec, norm, cond, cache, run, svc, desc>>

Faults == {"none", "deleteAll", "deleteIds", "upsert"}

\* the part of syncSource after `await this.aggregator.syncSource(...)` returned `res`
Apply(p, res, fault) ==
  LET s == proc[p].src
      srcGone == srcs[s] = "deleted" /\ ForeignKeysOn
  IN IF res.unchanged
     THEN IF srcGone THEN Fail(p, events, nextId, providers, {"E"})
          ELSE Complete(p, MarkSuccess(cursor, s, UnchangedCount(proc[p].snap), res.token, res.etag),
                        events, nextId, providers,
                        [NoRes EXCEPT !.kind = "returned", !.unchanged = TRUE,
                                      !.count = UnchangedCount(proc[p].snap)])
     ELSE LET r == Reconcile(events, nextId, s, res, srcGone, fault)
              total == Cardinality(RowsOf(r.ev, s))
          IN IF r.thrown \/ srcGone THEN Fail(p, r.ev, r.nid, providers, {IF r.thrown THEN r.msg ELSE "E"})
             ELSE Complete(p, MarkSuccess(cursor, s, total, res.token, res.etag),
                           r.ev, r.nid, providers,
                           [NoRes EXCEPT !.kind = "returned", !.count = total])

\* provider.sync returns or throws
FetchDone(p) ==
  /\ proc[p].pc = "fetch"
  /\ LET s == proc[p].src
     IN \/ \* network error, timeout or HTTP error status
           Fail(p, events, nextId, providers, ThrownMessages)
        \/ /\ SourceType[s] = "google"
           /\ ~(proc[p].req # Null /\ proc[p].req <= gone[s])
           /\ \E fault \in Faults : Apply(p, GoogleSync(remote[s], proc[p].req), fault)
        \/ /\ SourceType[s] = "ical_remote"
           /\ IF FeedParseFails(remote[s]) /\ ~(proc[p].snap.etag # Null /\ proc[p].snap.etag = EtagOf(remote[s]))
              THEN Fail(p, events, nextId, providers, {"NoStart"})
              ELSE \E fault \in Faults : Apply(p, ICalRemoteSync(remote[s], proc[p].snap.etag), fault)
  /\ UNCHANGED <<srcs, remote, gone, calls, rec, norm, cond, cache, run, svc, desc>>

\* ------------------------------------------------------------ environment
\* the number of changes the remotes have seen
Changes == remote[1].ver + remote[2].ver

\* an event is created or edited in the Google calendar
RemoteSet(s, i, raw) ==
  /\ SourceType[s] = "google"
  /\ Changes < MaxVer
  /\ remote[s].items[i] # raw
  /\ remote' = [remote EXCEPT ![s] = [items |-> [@.items EXCEPT ![i] = raw], ver |-> @.ver + 1,
                                      chg |-> [@.chg EXCEPT ![i] = remote[s].ver + 1]]]
  /\ UNCHANGED <<srcs, cursor, events, nextId, providers, syncing, gone, proc, calls, rec, norm, cond, cache, run, svc, desc>>

\* an event is removed from the Google calendar
RemoteRemove(s, i) ==
  /\ SourceType[s] = "google"
  /\ Changes < MaxVer
  /\ remote[s].items[i] # Absent
  /\ remote' = [remote EXCEPT ![s] = [items |-> [@.items EXCEPT ![i] = Absent], ver |-> @.ver + 1,
                                      chg |-> [@.chg EXCEPT ![i] = remote[s].ver + 1]]]
  /\ UNCHANGED <<srcs, cursor, events, nextId, providers, syncing, gone, proc, calls, rec, norm, cond, cache, run, svc, desc>>

FeedEntries == [uid : ExtIds, raw : Raws]

\* a VEVENT is appended to the remote iCal file (its UID may already occur in the file)
FeedAdd(s, e) ==
  /\ SourceType[s] = "ical_remote"
  /\ Changes < MaxVer
  /\ remote' = [remote EXCEPT ![s] = [entries |-> Append(@.entries, e), ver |-> @.ver + 1]]
  /\ UNCHANGED <<srcs, cursor, events, nextId, providers, syncing, gone, proc, calls, rec, norm, cond, cache, run, svc, desc>>

\* the k-th VEVENT is removed from the remote iCal file
FeedRemove(s, k) ==
  /\ SourceType[s] = "ical_remote"
  /\ Changes < MaxVer
  /\ k \in 1..Len(remote[s].entries)
  /\ remote' = [remote EXCEPT ![s] =
        [entries |-> SubSeq(@.entries, 1, k - 1) \o SubSeq(@.entries, k + 1, Len(@.entries)),
         ver |-> @.ver + 1]]
  /\ UNCHANGED <<srcs, cursor, events, nextId, providers, syncing, gone, proc, calls, rec, norm, cond, cache, run, svc, desc>>

\* Google stops accepting the sync tokens issued before the calendar's last change
Expire(s) ==
  /\ SourceType[s] = "google"
  /\ gone[s] < remote[s].ver
  /\ gone' = [gone EXCEPT ![s] = remote[s].ver]
  /\ UNCHANGED <<srcs, cursor, events, nextId, providers, syncing, remote, proc, calls, rec, norm, cond, cache, run, svc, desc>>

\* PUT /api/sources/:id -> Source.update(id, {enabled})
SetEnabled(s, b) ==
  /\ srcs[s] = (IF b THEN "disabled" ELSE "enabled")
  /\ srcs' = [srcs EXCEPT ![s] = IF b THEN "enabled" ELSE "disabled"]
  /\ UNCHANGED <<cursor, events, nextId, providers, syncing, remote, gone, proc, calls, rec, norm, cond, cache, run, svc, desc>>

\* DELETE /api/sources/:id -> Source.delete(id); ON DELETE CASCADE on events and sync_state
DeleteSource(s) ==
  /\ srcs[s] # "deleted"
  /\ srcs' = [srcs EXCEPT ![s] = "deleted"]
  /\ cursor' = (IF ForeignKeysOn THEN [cursor EXCEPT ![s] = NoRow] ELSE cursor)
  /\ events' = (IF ForeignKeysOn THEN DeleteBySourceId(events, s) ELSE events)
  /\ UNCHANGED <<nextId, providers, syncing, remote, gone, proc, calls, rec, norm, cond, cache, run, svc, desc>>

\* ------------------------------------------------------------ specification
\* The engine and its remotes; no source is enabled, disabled or deleted while it runs.
Next ==
  \/ \E p \in Procs, s \in Sources : SyncSourceCall(p, s)
  \/ \E p \in Procs, s \in Sources : ForceResyncCall(p, s)
  \/ \E p \in Procs : SyncAllCall(p)
  \/ \E p \in Procs : InitDone(p)
  \/ \E p \in Procs : FetchGone(p)
  \/ \E p \in Procs : FetchDone(p)
  \/ \E s \in Sources, i \in ExtIds, raw \in Raws : RemoteSet(s, i, raw)
  \/ \E s \in Sources, i \in ExtIds : RemoteRemove(s, i)
  \/ \E s \in Sources, e \in FeedEntries : FeedAdd(s, e)
  \/ \E s \in Sources, k \in 1..MaxVer : FeedRemove(s, k)
  \/ \E s \in Sources : Expire(s)

Spec == Init /\ [][Next]_vars


\* the engine's calls made one at a time: a call is made only when no other is in flight
Quiet == \A q \in Procs : proc[q].pc \notin {"init", "fetch"}

SoloSyncSourceCall(p, s) == Quiet /\ SyncSourceCall(p, s)
SoloForceResyncCall(p, s) == Quiet /\ ForceResyncCall(p, s)
SoloSyncAllCall(p) == Quiet /\ SyncAllCall(p)

NextSeq ==
  \/ \E p \in Procs, s \in Sources : SoloSyncSourceCall(p, s)
  \/ \E p \in Procs, s \in Sources : SoloForceResyncCall(p, s)
  \/ \E p \in Procs : SoloSyncAllCall(p)
  \/ \E p \in Procs : InitDone(p)
  \/ \E p \in Procs : FetchGone(p)
  \/ \E p \in Procs : FetchDone(p)
  \/ \E s \in Sources, i \in ExtIds, raw \in Raws : RemoteSet(s, i, raw)
  \/ \E s \in Sources, i \in ExtIds : RemoteRemove(s, i)
  \/ \E s \in Sources, e \in FeedEntries : FeedAdd(s, e)
  \/ \E s \in Sources, k \in 1..MaxVer : FeedRemove(s, k)
  \/ \E s \in Sources : Expire(s)

SpecSeq == Init /\ [][NextSeq]_vars

\* The engine with a Google calendar in which one event is created and sync tokens
\* expire, and the feed left as it is; every awaited provider call returns or throws.
ProviderReturns == \E p \in Procs : InitDone(p) \/ FetchGone(p) \/ FetchDone(p)

NextFair ==
  \/ \E p \in Procs, s \in Sources : SyncSourceCall(p, s)
  \/ \E p \in Procs, s \in Sources : ForceResyncCall(p, s)
  \/ \E p \in Procs : SyncAllCall(p)
  \/ ProviderReturns
  \/ \E s \in Sources : RemoteSet(s, 1, [val |-> 1, start |-> TRUE])
  \/ \E s \in Sources : Expire(s)

FairSpec == Init /\ [][NextFair]_vars /\ WF_vars(ProviderReturns)

\* The engine, remotes that gain events, and the administration of the sources: a source
\* is enabled, disabled or deleted at any moment.
NextAdmin ==
  \/ \E p \in Procs, s \in Sources : SyncSourceCall(p, s)
  \/ \E p \in Procs, s \in Sources : ForceResyncCall(p, s)
  \/ \E p \in Procs : SyncAllCall(p)
  \/ \E p \in Procs : InitDone(p)
  \/ \E p \in Procs : FetchDone(p)
  \/ \E s \in Sources, i \in ExtIds : RemoteSet(s, i, [val |-> 1, start |-> TRUE])
  \/ \E s \in Sources, i \in ExtIds : FeedAdd(s, [uid |-> i, raw |-> [val |-> 1, start |-> TRUE]])
  \/ \E s \in Sources, b \in BOOLEAN : SetEnabled(s, b)
  \/ \E s \in Sources : DeleteSource(s)

SpecAdmin == Init /\ [][NextAdmin]_vars

\* --------------------------------------------- the reconciler on its own
\* The reconciliation of syncSource applied to a drawn store and a drawn Sync Result,
\* once and then once more.
\* the reconciler is run on one more external id than the engine
RecIds == ExtIds \cup {Cardinality(ExtIds) + 1}
RecVals == 1..(MaxVal + 1)
RecEvents == [ext : RecIds, val : RecVals, start : BOOLEAN]
RecSeqs(S, n) == UNION {[1..k -> S] : k \in 0..n}
RecResults ==
  {[NoResult EXCEPT !.fullRefresh = f, !.events = es, !.deleted = ds] :
     f \in BOOLEAN, es \in RecSeqs(RecEvents, 2), ds \in RecSeqs(RecIds, 1)}

\* the rows of a store holding payload st[i] for id i (0: no row) for source s, and one
\* row of the other source
RecRows(st, s) ==
  {[rid |-> Cardinality({j \in RecIds : j <= i /\ st[j] # 0}), src |-> s, ext |-> i, val |-> st[i]] :
     i \in {j \in RecIds : st[j] # 0}}
  \cup {[rid |-> Cardinality(RecIds) + 1, src |-> 3 - s, ext |-> 1, val |-> 1]}

InitRec ==
  /\ srcs = [s \in Sources |-> "enabled"]
  /\ cursor = [s \in Sources |-> NoRow]
  /\ providers = {}
  /\ syncing = FALSE
  /\ remote = [s \in Sources |-> IF SourceType[s] = "google" THEN GoogleInit ELSE FeedInit]
  /\ gone = [s \in Sources |-> 0]
  /\ proc = [p \in Procs |-> IdleProc]
  /\ calls = 0
  /\ run = NoRun
  /\ svc = NoSvc
  /\ desc = NoDesc
  /\ norm = NoNorm
  /\ cond = NoCond
  /\ cache = NoCache
  /\ nextId = Cardinality(RecIds) + 2
  /\ \E st \in [RecIds -> 0..(MaxVal + 1)], r \in RecResults, s \in Sources :
       /\ events = RecRows(st, s)
       /\ rec = [n |-> 0, src |-> s, res |-> r, before |-> RecRows(st, s), once |-> {}, thrown |-> FALSE]

RecApply ==
  /\ rec.src # 0
  /\ rec.n < 2
  /\ LET r == Reconcile(events, nextId, rec.src, rec.res, FALSE, "none")
     IN /\ events' = r.ev
        /\ nextId' = r.nid
        /\ rec' = [rec EXCEPT !.n = @ + 1, !.once = IF rec.n = 0 THEN r.ev ELSE @,
                              !.thrown = @ \/ r.thrown]
  /\ UNCHANGED <<srcs, cursor, providers, syncing, remote, gone, proc, calls, norm, cond, cache, run, svc, desc>>

NextRec == RecApply

SpecRec == InitRec /\ [][NextRec]_vars


\* ------------------------------------- the default sync of BaseProvider
\* A provider kind that implements fetchEvents and inherits sync: its Sync Result for a
\* drawn fetch, reconciled with a drawn store.
\* BaseProvider.sync: `{ events, deleted: [], newSyncState: {} }`
BaseProviderSync(fetched) == [NoResult EXCEPT !.events = fetched]

InitBase ==
  /\ srcs = [s \in Sources |-> "enabled"]
  /\ cursor = [s \in Sources |-> NoRow]
  /\ providers = {}
  /\ syncing = FALSE
  /\ remote = [s \in Sources |-> IF SourceType[s] = "google" THEN GoogleInit ELSE FeedInit]
  /\ gone = [s \in Sources |-> 0]
  /\ proc = [p \in Procs |-> IdleProc]
  /\ calls = 0
  /\ run = NoRun
  /\ svc = NoSvc
  /\ desc = NoDesc
  /\ norm = NoNorm
  /\ cond = NoCond
  /\ cache = NoCache
  /\ nextId = Cardinality(RecIds) + 2
  /\ \E st \in [RecIds -> 0..(MaxVal + 1)], es \in RecSeqs(RecEvents, 2), s \in Sources :
       /\ events = RecRows(st, s)
       /\ rec = [n |-> 0, src |-> s, res |-> BaseProviderSync(es), before |-> RecRows(st, s),
                 once |-> {}, thrown |-> FALSE]

SpecBase == InitBase /\ [][NextRec]_vars

\* ------------------------------------------------ normalizeEvent on its own
\* normalizeEvent of each provider kind applied to a drawn raw event, once and then
\* once more.
\* the kinds createProvider knows
ProviderKinds == {"google", "ical_remote", "ical_local"}

\* what the status field of a raw event may hold ("missing": the field is absent)
RawStatuses == {"missing", "confirmed", "tentative", "cancelled", "CONFIRMED", "Tentative", "needsAction"}

\* a raw event: its native id (Null: it carries none), its status, whether it has a start
RawEvents == [id : {Null} \cup ExtIds, status : RawStatuses, start : BOOLEAN]

\* the values Date.now() and Math.random() give to one run
Draws == {1, 2}

\* events.status as the data model defines it
EventStatuses == {"confirmed", "tentative", "cancelled"}

\* String.prototype.toUpperCase
ToUpperCase(x) ==
  CASE x = "confirmed" -> "CONFIRMED"
    [] x = "tentative" -> "TENTATIVE"
    [] x = "Tentative" -> "TENTATIVE"
    [] x = "cancelled" -> "CANCELLED"
    [] x = "needsAction" -> "NEEDSACTION"
    [] OTHER -> x

\* ICalRemoteProvider.mapStatus and ICalLocalProvider.mapStatus
MapStatus(st) ==
  IF st = "missing" THEN "confirmed"
  ELSE LET u == ToUpperCase(st)
       IN IF u = "CONFIRMED" THEN "confirmed"
          ELSE IF u = "TENTATIVE" THEN "tentative"
          ELSE IF u = "CANCELLED" THEN "cancelled"
          ELSE "confirmed"

\* GoogleCalendarProvider.normalizeEvent: `rawEvent.status || 'confirmed'`
GoogleStatus(st) == IF st = "missing" THEN "confirmed" ELSE st

\* external_id: the native id, or what was generated in its place (gen 0: nothing)
ExternalId(id, src, clock, rnd) == [native |-> id, src |-> src, clock |-> clock, rnd |-> rnd]

\* normalizeEvent of the provider of kind `kind` for source `src`, the clock and the
\* random generator giving `clock` and `rnd`
NormalizeEvent(kind, src, raw, clock, rnd) ==
  IF kind = "google"
  THEN [thrown |-> FALSE, ext |-> ExternalId(raw.id, 0, 0, 0), status |-> GoogleStatus(raw.status),
        start |-> raw.start]
  ELSE IF ~raw.start
  THEN [thrown |-> TRUE, ext |-> ExternalId(Null, 0, 0, 0), status |-> "none", start |-> FALSE]
  ELSE [thrown |-> FALSE,
        ext |-> IF raw.id # Null THEN ExternalId(raw.id, 0, 0, 0) ELSE ExternalId(Null, src, clock, rnd),
        status |-> MapStatus(raw.status), start |-> TRUE]

InitNorm ==
  /\ srcs = [s \in Sources |-> "enabled"]
  /\ cursor = [s \in Sources |-> NoRow]
  /\ events = {}
  /\ nextId = 1
  /\ providers = {}
  /\ syncing = FALSE
  /\ remote = [s \in Sources |-> IF SourceType[s] = "google" THEN GoogleInit ELSE FeedInit]
  /\ gone = [s \in Sources |-> 0]
  /\ proc = [p \in Procs |-> IdleProc]
  /\ calls = 0
  /\ run = NoRun
  /\ svc = NoSvc
  /\ desc = NoDesc
  /\ rec = NoRec
  /\ cond = NoCond
  /\ cache = NoCache
  /\ \E k \in ProviderKinds, s \in Sources, r \in RawEvents :
       norm = [kind |-> k, src |-> s, raw |-> r, outs |-> <<>>]

\* one run of normalizeEvent on the raw event
NormRun ==
  /\ norm.kind # "none"
  /\ Len(norm.outs) < 2
  /\ \E clock \in Draws, rnd \in Draws :
       norm' = [norm EXCEPT !.outs = Append(@, NormalizeEvent(norm.kind, norm.src, norm.raw, clock, rnd))]
  /\ UNCHANGED <<srcs, cursor, events, nextId, providers, syncing, remote, gone, proc, calls, rec, cond, cache, run, svc, desc>>

NextNorm == NormRun

SpecNorm == InitNorm /\ [][NextNorm]_vars


\* ------------------------------------ conditional-fetch providers on their own
\* One cached provider instance of a remote feed or of a local file, the feed or file
\* changing, and two calls of its sync(syncState), each with the validator the Cursor
\* Record held when the call was made.
CondCalls == {1, 2}

CondIdle == [pc |-> "idle", stored |-> Null, seen |-> Null, hdr |-> Null, body |-> Null,
             thrown |-> FALSE, res |-> NoResult]

\* the file or feed at version v
FeedAt(v) == [entries |-> <<>>, ver |-> v]

\* ICalLocalProvider.sync: statSync, the comparison of the stored etag with the mtime,
\* then fetchEvents (statSync and readFileSync); nothing in it waits for I/O
ICalLocalSync(f, etag) ==
  IF etag = EtagOf(f)
  THEN [NoResult EXCEPT !.unchanged = TRUE, !.etag = EtagOf(f)]
  ELSE [NoResult EXCEPT !.fullRefresh = TRUE, !.events = FeedEvents(f), !.etag = EtagOf(f)]

InitCond ==
  /\ srcs = [s \in Sources |-> "enabled"]
  /\ cursor = [s \in Sources |-> NoRow]
  /\ events = {}
  /\ nextId = 1
  /\ providers = {}
  /\ syncing = FALSE
  /\ remote = [s \in Sources |-> IF SourceType[s] = "google" THEN GoogleInit ELSE FeedInit]
  /\ gone = [s \in Sources |-> 0]
  /\ proc = [p \in Procs |-> IdleProc]
  /\ calls = 0
  /\ run = NoRun
  /\ svc = NoSvc
  /\ desc = NoDesc
  /\ rec = NoRec
  /\ norm = NoNorm
  /\ cache = NoCache
  /\ \E k \in {"ical_remote", "ical_local"} :
       cond = [kind |-> k, ver |-> 0, lastEtag |-> Null, call |-> [c \in CondCalls |-> CondIdle]]

CondFrame == UNCHANGED <<srcs, cursor, events, nextId, providers, syncing, remote, gone, proc, calls,
                         rec, norm, cache, run, svc, desc>>

\* the file is rewritten, or the feed's content and ETag change
CondChange ==
  /\ cond.kind # "none"
  /\ cond.ver < MaxVer
  /\ cond' = [cond EXCEPT !.ver = @ + 1]
  /\ CondFrame

\* sync(syncState) is called with the stored validator `stored`: the local provider runs
\* to its return, the remote provider up to its awaited fetch()
CondStart(c, stored) ==
  /\ cond.kind # "none"
  /\ cond.call[c].pc = "idle"
  /\ stored = Null \/ stored <= EtagOf(FeedAt(cond.ver))
  /\ IF cond.kind = "ical_local"
     THEN cond' = [cond EXCEPT !.call[c] = [@ EXCEPT !.pc = "done", !.stored = stored,
                                                     !.seen = EtagOf(FeedAt(cond.ver)),
                                                     !.res = ICalLocalSync(FeedAt(cond.ver), stored)]]
     ELSE cond' = [cond EXCEPT !.call[c] = [@ EXCEPT !.pc = "fetch", !.stored = stored]]
  /\ CondFrame

\* ICalRemoteProvider: the awaited fetch() settles. A 304 returns at once; a 200 keeps
\* the ETag (in `newEtag` on the conditional path, in this.lastEtag in fetchEvents) and
\* awaits response.text()
CondResponse(c) ==
  /\ cond.kind = "ical_remote"
  /\ cond.call[c].pc = "fetch"
  /\ \/ cond' = [cond EXCEPT !.call[c] = [@ EXCEPT !.pc = "done", !.thrown = TRUE]]
     \/ LET f == FeedAt(cond.ver)
            r == ICalRemoteSync(f, cond.call[c].stored)
        IN IF r.unchanged
           THEN cond' = [cond EXCEPT !.call[c] = [@ EXCEPT !.pc = "done", !.seen = EtagOf(f), !.res = r]]
           ELSE cond' = [cond EXCEPT !.call[c] = [@ EXCEPT !.pc = "text", !.seen = EtagOf(f),
                                                           !.hdr = r.etag, !.body = cond.ver, !.res = r],
                                      !.lastEtag = IF cond.call[c].stored = Null THEN r.etag ELSE @]
  /\ CondFrame

\* ICalRemoteProvider: response.text() settles, the body is parsed and sync returns
CondBody(c) ==
  /\ cond.kind = "ical_remote"
  /\ cond.call[c].pc = "text"
  /\ cond' = [cond EXCEPT !.call[c] =
        [@ EXCEPT !.pc = "done",
                  !.res = [@ EXCEPT !.etag = IF cond.call[c].stored = Null THEN cond.lastEtag
                                             ELSE cond.call[c].hdr]]]
  /\ CondFrame

NextCond ==
  \/ CondChange
  \/ \E c \in CondCalls, stored \in {Null} \cup (1..(MaxVer + 1)) : CondStart(c, stored)
  \/ \E c \in CondCalls : CondResponse(c)
  \/ \E c \in CondCalls : CondBody(c)

SpecCond == InitCond /\ [][NextCond]_vars

\* ------------------------------------------- the provider cache on its own
\* CalendarAggregator.providers with provider instances told apart: getProvider calls
\* that may overlap, clearProvider, clearAllProviders, and sources whose type is changed
\* (PUT /api/sources/:id).
NoInst == [inst |-> 0, id |-> 0, type |-> "none"]

CacheCalls == {1, 2}

CacheIdle == [pc |-> "idle", src |-> [id |-> 0, type |-> "none"], prov |-> NoInst, ret |-> NoInst,
              thrown |-> FALSE]

\* the keys the providers map can hold
CacheKeys == ProviderKinds \X Sources

\* a key without the source id
ProviderKey_TypeOnly(src) == <<src.type, 1>>

\* getProvider / clearProvider: `${source.type}-${source.id}` (the types are fixed words
\* and the id a number, so the string names the pair)
ProviderKey(src) == <<src.type, src.id>>

\* createProvider: a new instance (the n-th made) of the class of source.type, holding
\* the source it was given
CreateProvider(src, n) == [inst |-> n, id |-> src.id, type |-> src.type]

InitCache ==
  /\ srcs = [s \in Sources |-> "enabled"]
  /\ cursor = [s \in Sources |-> NoRow]
  /\ events = {}
  /\ nextId = 1
  /\ providers = {}
  /\ syncing = FALSE
  /\ remote = [s \in Sources |-> IF SourceType[s] = "google" THEN GoogleInit ELSE FeedInit]
  /\ gone = [s \in Sources |-> 0]
  /\ proc = [p \in Procs |-> IdleProc]
  /\ calls = 0
  /\ run = NoRun
  /\ svc = NoSvc
  /\ desc = NoDesc
  /\ rec = NoRec
  /\ norm = NoNorm
  /\ cond = NoCond
  /\ cache = [types |-> SourceType, map |-> [k \in CacheKeys |-> NoInst], made |-> 0,
              call |-> [c \in CacheCalls |-> CacheIdle]]

CacheFrame == UNCHANGED <<srcs, cursor, events, nextId, providers, syncing, remote, gone, proc, calls,
                          rec, norm, cond, run, svc, desc>>

\* getProvider(source) from its call to the awaited initialize(), or to its return when
\* the key is cached or initialize() has nothing to wait for
GetProviderCall(c, s) ==
  /\ cache.call[c].pc \in {"idle", "done"}
  /\ cache.made <= MaxCalls
  /\ LET src == [id |-> s, type |-> cache.types[s]]
         key == ProviderKey(src)
         provider == CreateProvider(src, cache.made + 1)
     IN IF cache.map[key] # NoInst
        THEN cache' = [cache EXCEPT !.call[c] = [CacheIdle EXCEPT !.pc = "done", !.src = src,
                                                                   !.ret = cache.map[key]]]
        ELSE IF src.type = "google"
        THEN cache' = [cache EXCEPT !.made = @ + 1,
                                    !.call[c] = [CacheIdle EXCEPT !.pc = "init", !.src = src,
                                                                   !.prov = provider]]
        ELSE \E ok \in BOOLEAN :
               /\ ~ok => src.type = "ical_local"
               /\ IF ok
                  THEN cache' = [cache EXCEPT !.made = @ + 1, !.map[key] = provider,
                                              !.call[c] = [CacheIdle EXCEPT !.pc = "done", !.src = src,
                                                                             !.prov = provider,
                                                                             !.ret = provider]]
                  ELSE cache' = [cache EXCEPT !.made = @ + 1,
                                              !.call[c] = [CacheIdle EXCEPT !.pc = "done", !.src = src,
                                                                             !.thrown = TRUE]]
  /\ CacheFrame

\* getProvider: the awaited initialize() settles; on success the instance is set under
\* the key and the instance under the key is returned
GetProviderInitDone(c) ==
  /\ cache.call[c].pc = "init"
  /\ LET key == ProviderKey(cache.call[c].src)
     IN \E ok \in BOOLEAN :
          IF ok
          THEN cache' = [cache EXCEPT !.map[key] = cache.call[c].prov,
                                      !.call[c] = [@ EXCEPT !.pc = "done", !.ret = cache.call[c].prov]]
          ELSE cache' = [cache EXCEPT !.call[c] = [@ EXCEPT !.pc = "done", !.thrown = TRUE]]
  /\ CacheFrame

\* clearProvider(source)
ClearProvider(s) ==
  /\ cache.types # <<>>
  /\ cache' = [cache EXCEPT !.map[ProviderKey([id |-> s, type |-> cache.types[s]])] = NoInst]
  /\ CacheFrame

\* clearAllProviders()
ClearAllProviders ==
  /\ cache.types # <<>>
  /\ cache' = [cache EXCEPT !.map = [k \in CacheKeys |-> NoInst]]
  /\ CacheFrame

\* PUT /api/sources/:id with a type: Source.update
UpdateType(s, ty) ==
  /\ cache.types # <<>>
  /\ cache.types[s] # ty
  /\ cache' = [cache EXCEPT !.types[s] = ty]
  /\ CacheFrame

NextCache ==
  \/ \E c \in CacheCalls, s \in Sources : GetProviderCall(c, s)
  \/ \E c \in CacheCalls : GetProviderInitDone(c)
  \/ \E s \in Sources : ClearProvider(s)
  \/ ClearAllProviders
  \/ \E s \in Sources, ty \in ProviderKinds : UpdateType(s, ty)

SpecCache == InitCache /\ [][NextCache]_vars

\* --------------------------------------- syncSource statement by statement
\* Two calls (of syncSource, of forceResync or of the batch's syncSource), with every statement
\* that follows the provider call a step of its own. The event loop runs one call at a
\* time: a call keeps running until it reaches an awaited call, and a waiting call
\* goes on only when no call is running.
RunIdle == [op |-> "none", pc |-> "idle", src |-> 0, res |-> NoResult, snap |-> NoRow, total |-> 0,
            muts |-> 0, out |-> "none"]

\* the statements of syncSource after the provider call, and the markError of its catch
StorePcs == {"deleteBySourceId", "deleteByExternalIds", "bulkUpsert", "count", "markSuccess", "markError"}

\* the Sync Results the provider call of a run returns
RunResults ==
  {[NoResult EXCEPT !.unchanged = TRUE, !.token = 1]}
  \cup {[NoResult EXCEPT !.fullRefresh = f, !.events = es, !.deleted = ds, !.token = 1] :
          f \in BOOLEAN, ds \in {<<>>, <<2>>},
          es \in {<<>>} \cup {<<[ext |-> 1, val |-> v, start |-> TRUE]>> : v \in 1..MaxVal}}

\* a store whose calls return promises that syncSource awaits
StoreAwaited_Async == TRUE

\* Event.* and SyncState.* are better-sqlite3 calls (prepare, run, all): they return
\* their result and syncSource awaits none of them
StoreAwaited == FALSE

InitRun ==
  /\ srcs = [s \in Sources |-> "enabled"]
  /\ cursor = [s \in Sources |-> NoRow]
  /\ events = {[rid |-> s, src |-> s, ext |-> 2, val |-> 1] : s \in Sources}
  /\ nextId = Cardinality(Sources) + 1
  /\ providers = {}
  /\ syncing = FALSE
  /\ remote = [s \in Sources |-> IF SourceType[s] = "google" THEN GoogleInit ELSE FeedInit]
  /\ gone = [s \in Sources |-> 0]
  /\ proc = [p \in Procs |-> IdleProc]
  /\ calls = 0
  /\ rec = NoRec
  /\ norm = NoNorm
  /\ cond = NoCond
  /\ cache = NoCache
  /\ run = [running |-> 0, call |-> [c \in Procs |-> RunIdle]]
  /\ svc = NoSvc
  /\ desc = NoDesc

\* the event loop can go on with call c
CanRun(c) == run.running = c \/ (run.running = 0 /\ run.call[c].pc \notin {"idle", "done"})

\* syncSource(s) or forceResync(s) is called: forceResync resets the Cursor Record and
\* deletes the Events, syncSource marks the source pending, reads the sync state and
\* awaits the provider call
RunCall(c, op, s) ==
  /\ run.running = 0
  /\ run.call[c].pc = "idle"
  /\ LET cur0 == IF op = "forceResync"
                 THEN SyncStateUpsert(cursor, s, [token |-> Null, etag |-> Null, status |-> "pending",
                                                  err |-> "null", count |-> 0])
                 ELSE cursor
         cur1 == MarkPending(cur0, s)
     IN /\ cursor' = cur1
        /\ events' = (IF op = "forceResync" THEN DeleteBySourceId(events, s) ELSE events)
        /\ run' = [run EXCEPT !.call[c] = [RunIdle EXCEPT !.op = op, !.pc = "provider", !.src = s,
                                                          !.snap = cur1[s]]]
  /\ UNCHANGED nextId
  /\ UNCHANGED <<srcs, providers, syncing, remote, gone, proc, calls, rec, norm, cond, cache, svc, desc>>

\* `await this.aggregator.syncSource(source, syncState)` settles: it throws, or returns
\* a Sync Result and the call goes on with the statement that result leads to
RunProviderSettles(c) ==
  /\ CanRun(c)
  /\ run.call[c].pc = "provider"
  /\ \/ run' = [run EXCEPT !.running = c, !.call[c] = [@ EXCEPT !.pc = "markError"]]
     \/ \E res \in RunResults :
          run' = [run EXCEPT !.running = c,
                             !.call[c] = [@ EXCEPT !.res = res,
                                                   !.total = IF res.unchanged THEN UnchangedCount(run.call[c].snap) ELSE 0,
                                                   !.pc = IF res.unchanged THEN "markSuccess"
                                                          ELSE "deleteBySourceId"]]
  /\ UNCHANGED <<cursor, events, nextId>>
  /\ UNCHANGED <<srcs, providers, syncing, remote, gone, proc, calls, rec, norm, cond, cache, svc, desc>>

\* the statement at which call c stands is executed
RunStatement(c) ==
  /\ CanRun(c)
  /\ run.call[c].pc \in StorePcs
  /\ LET k == run.call[c]
         s == k.src
         last == k.pc \in {"markSuccess", "markError"}
         \* the call after a statement that leads to statement pc and made n store calls
         to(pc, n) == [run EXCEPT !.running = IF StoreAwaited /\ n > 0 THEN 0 ELSE c,
                                  !.call[c] = [@ EXCEPT !.pc = pc, !.muts = @ + n]]
     IN CASE k.pc = "deleteBySourceId" ->
               /\ events' = (IF k.res.fullRefresh THEN DeleteBySourceId(events, s) ELSE events)
               /\ run' = to("deleteByExternalIds", IF k.res.fullRefresh THEN 1 ELSE 0)
               /\ UNCHANGED <<cursor, nextId>>
          [] k.pc = "deleteByExternalIds" ->
               /\ events' = (IF Len(k.res.deleted) > 0 THEN DeleteByExternalIds(events, s, k.res.deleted)
                             ELSE events)
               /\ run' = to("bulkUpsert", IF Len(k.res.deleted) > 0 THEN 1 ELSE 0)
               /\ UNCHANGED <<cursor, nextId>>
          [] k.pc = "bulkUpsert" ->
               IF Len(k.res.events) = 0
               THEN /\ run' = to("count", 0)
                    /\ UNCHANGED <<cursor, events, nextId>>
               ELSE \E ok \in BOOLEAN :
                      IF ok
                      THEN LET st == UpsertMany([ev |-> events, nid |-> nextId], s, k.res.events)
                           IN /\ events' = st.ev
                              /\ nextId' = st.nid
                              /\ run' = to("count", 1)
                              /\ UNCHANGED cursor
                      ELSE /\ run' = to("markError", 1)
                           /\ UNCHANGED <<cursor, events, nextId>>
          [] k.pc = "count" ->
               /\ run' = [to("markSuccess", 1) EXCEPT !.call[c].total = Cardinality(RowsOf(events, s))]
               /\ UNCHANGED <<cursor, events, nextId>>
          [] k.pc = "markSuccess" ->
               /\ cursor' = MarkSuccess(cursor, s, k.total, k.res.token, k.res.etag)
               /\ run' = [run EXCEPT !.running = 0,
                                     !.call[c] = [@ EXCEPT !.pc = "done", !.muts = @ + 1, !.out = "returned"]]
               /\ UNCHANGED <<events, nextId>>
          [] k.pc = "markError" ->
               /\ cursor' = MarkError(cursor, s, "E")
               /\ run' = [run EXCEPT !.running = 0,
                                     !.call[c] = [@ EXCEPT !.pc = "done", !.muts = @ + 1, !.out = "threw"]]
               /\ UNCHANGED <<events, nextId>>
  /\ UNCHANGED <<srcs, providers, syncing, remote, gone, proc, calls, rec, norm, cond, cache, svc, desc>>

NextRun ==
  \/ \E c \in Procs, op \in {"syncSource", "forceResync", "syncAll"}, s \in Sources : RunCall(c, op, s)
  \/ \E c \in Procs : RunProviderSettles(c)
  \/ \E c \in Procs : RunStatement(c)

SpecRun == InitRun /\ [][NextRun]_vars

\* ----------------------------- stored Source Descriptors and cached providers
\* Sources of every type the sources table accepts, whose config is edited (PUT
\* /api/sources/:id) while CalendarAggregator caches the provider built from the
\* descriptor; desc.map holds, per key, the config version of the source object the
\* cached provider holds (Null: no provider), desc.call what the last sync of a source used.
\* schema.sql: CHECK(type IN ('google', 'ical_remote', 'ical_local', 'microsoft'))
StoredKinds == ProviderKinds \cup {"microsoft"}

InitDesc ==
  /\ srcs = [s \in Sources |-> "enabled"]
  /\ cursor = [s \in Sources |-> NoRow]
  /\ events = {}
  /\ nextId = 1
  /\ providers = {}
  /\ syncing = FALSE
  /\ remote = [s \in Sources |-> IF SourceType[s] = "google" THEN GoogleInit ELSE FeedInit]
  /\ gone = [s \in Sources |-> 0]
  /\ proc = [p \in Procs |-> IdleProc]
  /\ calls = 0
  /\ rec = NoRec
  /\ norm = NoNorm
  /\ cond = NoCond
  /\ cache = NoCache
  /\ run = NoRun
  /\ svc = NoSvc
  /\ \E ty \in [Sources -> StoredKinds] :
       desc = [rows |-> [s \in Sources |-> [type |-> ty[s], cfg |-> 1]],
               map |-> [k \in CacheKeys |-> Null],
               call |-> [s \in Sources |-> [out |-> "none", used |-> Null, stored |-> Null]]]

\* Source.update(id, {config}): the stored config is replaced; nothing else is touched
UpdateConfig(s) ==
  /\ desc.rows # <<>>
  /\ desc.rows[s].cfg <= MaxVer
  /\ desc' = [desc EXCEPT !.rows[s].cfg = @ + 1]
  /\ UNCHANGED <<srcs, cursor, events, nextId, providers, syncing, remote, gone, proc, calls, rec, norm,
                 cond, cache, run, svc>>

\* CalendarAggregator.syncSource(source, syncState) with the source as stored now:
\* getProvider (createProvider throws for a type outside its switch; initialize may
\* throw), then provider.sync, which reads this.source.config
AggregatorSyncSource(s) ==
  /\ desc.rows # <<>>
  /\ LET src == [id |-> s, type |-> desc.rows[s].type]
         cfg == desc.rows[s].cfg
     IN IF desc.map # <<>> /\ src.type \in ProviderKinds /\ desc.map[ProviderKey(src)] # Null
        THEN desc' = [desc EXCEPT !.call[s] = [out |-> "synced", used |-> desc.map[ProviderKey(src)],
                                               stored |-> cfg]]
        ELSE IF src.type \notin ProviderKinds
        THEN desc' = [desc EXCEPT !.call[s] = [out |-> "UnknownSourceType", used |-> Null, stored |-> cfg]]
        ELSE \E ok \in BOOLEAN :
               IF ok
               THEN desc' = [desc EXCEPT !.map[ProviderKey(src)] = cfg,
                                         !.call[s] = [out |-> "synced", used |-> cfg, stored |-> cfg]]
               ELSE desc' = [desc EXCEPT !.call[s] = [out |-> "threw", used |-> Null, stored |-> cfg]]
  /\ UNCHANGED <<srcs, cursor, events, nextId, providers, syncing, remote, gone, proc, calls, rec, norm,
                 cond, cache, run, svc>>

\* forceResync: this.aggregator.clearProvider(source)
EvictProvider(s) ==
  /\ desc.rows # <<>>
  /\ desc.rows[s].type \in ProviderKinds
  /\ desc.map[ProviderKey([id |-> s, type |-> desc.rows[s].type])] # Null
  /\ desc' = [desc EXCEPT !.map[ProviderKey([id |-> s, type |-> desc.rows[s].type])] = Null]
  /\ UNCHANGED <<srcs, cursor, events, nextId, providers, syncing, remote, gone, proc, calls, rec, norm,
                 cond, cache, run, svc>>

NextDesc ==
  \/ \E s \in Sources : UpdateConfig(s)
  \/ \E s \in Sources : AggregatorSyncSource(s)
  \/ \E s \in Sources : EvictProvider(s)

SpecDesc == InitDesc /\ [][NextDesc]_vars

\* ------------------------------------- the engine started on a synced store
\* The process starts on the database an earlier run left: the feed source was synced
\* successfully (one Event, the feed's validator in its Cursor Record) and no provider
\* is cached yet.
InitSynced ==
  /\ srcs = [s \in Sources |-> "enabled"]
  /\ remote = [s \in Sources |->
                 IF SourceType[s] = "google" THEN GoogleInit
                 ELSE [FeedInit EXCEPT !.entries = <<[uid |-> 1, raw |-> [val |-> 1, start |-> TRUE]]>>]]
  /\ cursor = [s \in Sources |->
                 IF SourceType[s] = "google" THEN NoRow
                 ELSE MarkSuccess([t \in Sources |-> NoRow], s, 1, Null, EtagOf(remote[s]))[s]]
  /\ events = {[rid |-> 1, src |-> s, ext |-> 1, val |-> 1] : s \in {t \in Sources : SourceType[t] # "google"}}
  /\ nextId = 2
  /\ providers = {}
  /\ syncing = FALSE
  /\ gone = [s \in Sources |-> 0]
  /\ proc = [p \in Procs |-> IdleProc]
  /\ calls = 0
  /\ run = NoRun
  /\ svc = NoSvc
  /\ desc = NoDesc
  /\ rec = NoRec
  /\ norm = NoNorm
  /\ cond = NoCond
  /\ cache = NoCache

SpecSynced == InitSynced /\ [][Next]_vars

\* --------------------------------- the calendar services' syncEvents on its own
\* One sync of source 1 through GoogleCalendarService or MicrosoftCalendarService: the
\* list (delta) request and its answer, the fallback on 410, Microsoft's detail request
\* per reported item, then the provider's sync and the reconciliation of syncSource.
\* An item of a delta answer: an id, reported as changed or as removed
DeltaItems == [id : ExtIds, removed : BOOLEAN]

InitSvc ==
  /\ srcs = [s \in Sources |-> "enabled"]
  /\ cursor = [s \in Sources |-> NoRow]
  /\ events = {[rid |-> 1, src |-> 1, ext |-> 1, val |-> 1]}
  /\ nextId = 2
  /\ providers = {}
  /\ syncing = FALSE
  /\ remote = [s \in Sources |-> IF SourceType[s] = "google" THEN GoogleInit ELSE FeedInit]
  /\ gone = [s \in Sources |-> 0]
  /\ proc = [p \in Procs |-> IdleProc]
  /\ calls = 0
  /\ run = NoRun
  /\ desc = NoDesc
  /\ rec = NoRec
  /\ norm = NoNorm
  /\ cond = NoCond
  /\ cache = NoCache
  /\ \E k \in {"google", "microsoft"}, tok \in {Null, 1} :
       svc = [kind |-> k, pc |-> "list", token |-> tok, fallbacks |-> 0, reported |-> {}, queue |-> <<>>,
              events |-> <<>>, deleted |-> <<>>, dropped |-> {}, next |-> Null, out |-> "none"]

\* syncEvents: the list request (all its pages) is answered. 410: the catch block calls
\* syncEvents(null), whatever the token of the failed request was; another error is
\* thrown; 200: Google's items are the events, Microsoft's delta items that are not
\* marked @removed are queued for their detail request
ListAnswers ==
  /\ svc.pc = "list"
  /\ \/ /\ svc.fallbacks <= MaxCalls
        /\ svc' = [svc EXCEPT !.token = Null, !.fallbacks = @ + 1]
     \/ svc' = [svc EXCEPT !.pc = "done", !.out = "threw"]
     \/ \E items \in SUBSET DeltaItems :
          /\ \A x, y \in items : x.id = y.id => x = y
          /\ LET ids == SetToSortedSeq({x.id : x \in items})
                 rem(i) == [id |-> i, removed |-> TRUE] \in items
                 keep(q, T(_)) == SelectSeq(q, T)
                 isRem(i) == rem(i)
                 notRem(i) == ~rem(i)
             IN svc' = [svc EXCEPT !.reported = {x.id : x \in items},
                                   !.next = 2,
                                   !.deleted = keep(ids, isRem),
                                   !.events = IF svc.kind = "google" THEN keep(ids, notRem) ELSE <<>>,
                                   !.queue = IF svc.kind = "google" THEN <<>> ELSE keep(ids, notRem),
                                   !.pc = IF svc.kind = "google" \/ keep(ids, notRem) = <<>> THEN "apply"
                                          ELSE "detail"]
  /\ UNCHANGED <<srcs, cursor, events, nextId, providers, syncing, remote, gone, proc, calls, rec, norm,
                 cond, cache, run, desc>>

\* MicrosoftCalendarService.syncEvents: the detail request of the next queued item is
\* answered: the full event, 404 (the item is marked removed), or another error, which
\* is logged and the item left out
DetailAnswers ==
  /\ svc.pc = "detail"
  /\ \E answer \in {"event", "404", "error"} :
       LET i == Head(svc.queue)
       IN svc' = [svc EXCEPT !.queue = Tail(@),
                             !.events = IF answer = "event" THEN Append(@, i) ELSE @,
                             !.deleted = IF answer = "404" THEN Append(@, i) ELSE @,
                             !.dropped = IF answer = "error" THEN @ \cup {i} ELSE @,
                             !.pc = IF Tail(svc.queue) = <<>> THEN "apply" ELSE "detail"]
  /\ UNCHANGED <<srcs, cursor, events, nextId, providers, syncing, remote, gone, proc, calls, rec, norm,
                 cond, cache, run, desc>>

\* syncEvents returns; the provider's sync builds `{ events, deleted, newSyncState }`
\* and syncSource reconciles it and writes markSuccess with the new token
ProviderSyncApplied ==
  /\ svc.pc = "apply"
  /\ LET res == [NoResult EXCEPT !.events = [k \in 1..Len(svc.events) |->
                                                [ext |-> svc.events[k], val |-> MaxVal, start |-> TRUE]],
                                 !.deleted = svc.deleted, !.token = svc.next]
         r == Reconcile(events, nextId, 1, res, FALSE, "none")
     IN /\ events' = r.ev
        /\ nextId' = r.nid
        /\ cursor' = MarkSuccess(cursor, 1, Cardinality(RowsOf(r.ev, 1)), res.token, res.etag)
        /\ svc' = [svc EXCEPT !.pc = "done", !.out = "returned"]
  /\ UNCHANGED <<srcs, providers, syncing, remote, gone, proc, calls, rec, norm, cond, cache, run, desc>>

NextSvc ==
  \/ ListAnswers
  \/ DetailAnswers
  \/ ProviderSyncApplied

SpecSvc == InitSvc /\ [][NextSvc]_vars

\* ------------------------------------------------------------- properties
InFlight(p) == proc[p].pc \in {"init", "fetch"}
BatchRunning(p) == proc[p].op = "syncAll" /\ InFlight(p)

\* this step ends the sync attempt of p on its source with an exception
AttemptThrew(p) ==
  /\ InFlight(p)
  /\ IF proc[p].op = "syncAll"
     THEN /\ proc'[p].success = proc[p].success
          /\ Len(proc'[p].failed) > Len(proc[p].failed)
     ELSE proc'[p].pc = "done" /\ proc'[p].res.kind = "threw"

\* this step ends the sync attempt of p on its source with a normal return
AttemptReturned(p) ==
  /\ InFlight(p)
  /\ IF proc[p].op = "syncAll"
     THEN Len(proc'[p].success) = Len(proc[p].success) + 1
     ELSE proc'[p].pc = "done" /\ proc'[p].res.kind = "returned"

\* what the attempt that returns in this step returned
Returned(p) ==
  IF proc[p].op = "syncAll"
  THEN LET e == proc'[p].success[Len(proc'[p].success)]
       IN [unchanged |-> e.unchanged, count |-> e.count]
  ELSE [unchanged |-> proc'[p].res.unchanged, count |-> proc'[p].res.count]

\* the Sync Result the provider of p's source returns when its call completes now
ResultOf(p) ==
  IF SourceType[proc[p].src] = "google" THEN GoogleSync(remote[proc[p].src], proc[p].req)
  ELSE ICalRemoteSync(remote[proc[p].src], proc[p].snap.etag)

EventIds(es) == {es[k].ext : k \in 1..Len(es)}

\* the external ids the remote of s holds
RemoteIds(s) ==
  IF SourceType[s] = "google" THEN {i \in ExtIds : remote[s].items[i] # Absent}
  ELSE {remote[s].entries[k].uid : k \in 1..Len(remote[s].entries)}

\* C1: at most one syncAll batch is executing; a syncAll called while a batch is running
\* returns skipped at once, starts no provider call, changes no Cursor Record, no Event
\* and no other call, and leaves the in-progress flag set.
C1_SingleFlight ==
  /\ [](Cardinality({p \in Procs : BatchRunning(p)}) <= 1)
  /\ [][\A p \in Procs :
          (SyncAllCall(p) /\ \E q \in Procs \ {p} : BatchRunning(q))
          => /\ proc'[p].pc = "done"
             /\ proc'[p].res.kind = "skipped"
             /\ cursor' = cursor
             /\ events' = events
             /\ providers' = providers
             /\ syncing'
             /\ \A q \in Procs \ {p} : proc'[q] = proc[q]]_vars

C1_Witness ==
  \E p, q \in Procs :
    /\ p # q
    /\ proc[p].op = "syncAll" /\ proc[p].pc = "done" /\ proc[p].res.kind = "skipped"
    /\ BatchRunning(q)
    /\ syncing

\* C2: when a syncAll that set the flag finishes, by return or by exception (also one
\* thrown while enumerating the sources), the flag is false; a set flag is eventually
\* cleared when every provider call returns; a syncAll called while no batch is
\* running is not skipped.
C2_FlagCleared ==
  /\ [][\A p \in Procs :
          /\ ((SyncAllCall(p) \/ BatchRunning(p)) /\ proc'[p].op = "syncAll"
                 /\ proc'[p].pc = "done" /\ proc'[p].res.kind # "skipped") => ~syncing'
          /\ (SyncAllCall(p) /\ ~\E q \in Procs : BatchRunning(q))
                => proc'[p].res.kind # "skipped"]_vars
  /\ (syncing ~> ~syncing)

C2_Witness ==
  \E p, q \in Procs :
    /\ p # q
    /\ proc[p].op = "syncAll" /\ proc[p].pc = "done" /\ proc[p].res.kind = "threw"
    /\ proc[q].op = "syncAll" /\ proc[q].pc = "done" /\ proc[q].res.kind = "returned"
    /\ proc[q].enum # <<>>
    /\ ~syncing

\* C3: a batch that enumerated its sources returns normally whatever sources throw;
\* every enumerated source is exactly once in the result, in failed when its sync threw
\* (its Cursor Record then says error) and in success otherwise (its Cursor Record then
\* says success with the stored count, and its Events are those of its Sync Result).
C3_BatchIsolation ==
  /\ [](\A p \in Procs :
          (proc[p].op = "syncAll" /\ proc[p].pc = "done" /\ proc[p].res.kind = "returned")
          => \A s \in Sources :
               Cardinality({k \in 1..Len(proc[p].success) : proc[p].success[k].src = s})
                 + Cardinality({k \in 1..Len(proc[p].failed) : proc[p].failed[k] = s})
               = (IF s \in Range(proc[p].enum) THEN 1 ELSE 0))
  /\ [][\A p \in Procs :
          BatchRunning(p) =>
            LET s == proc[p].src
                res == ResultOf(p)
            IN /\ proc'[p].pc = "done" => proc'[p].res.kind = "returned"
               /\ AttemptThrew(p) =>
                    /\ proc'[p].failed = Append(proc[p].failed, s)
                    /\ cursor'[s].status = "error"
               /\ AttemptReturned(p) =>
                    /\ proc'[p].failed = proc[p].failed
                    /\ proc'[p].success[Len(proc'[p].success)].src = s
                    /\ cursor'[s].status = "success"
                    /\ Returned(p).count = cursor'[s].count
                    /\ ~Returned(p).unchanged =>
                         /\ cursor'[s].count = Cardinality(RowsOf(events', s))
                         /\ EventIds(res.events) \subseteq StoredIds(events', s)
                         /\ res.fullRefresh => StoredIds(events', s) = EventIds(res.events)
                         /\ \A k \in 1..Len(res.deleted) :
                              res.deleted[k] \in StoredIds(events', s) => res.deleted[k] \in EventIds(res.events)]_vars

C3_Witness ==
  \E p \in Procs :
    /\ proc[p].op = "syncAll" /\ proc[p].pc = "done" /\ proc[p].res.kind = "returned"
    /\ proc[p].failed = <<1>>
    /\ Len(proc[p].success) = 1
    /\ proc[p].success[1].src = 2
    /\ cursor[1].status = "error"
    /\ cursor[2].status = "success"
    /\ RowsOf(events, 2) # {}

\* C4: when a sync attempt throws (at initialize, at the fetch, or while the result is
\* applied), the Cursor Record of its source then holds the token and the validator it
\* held before the attempt, status error, and the count it held before the attempt.
C4_CursorPreserved ==
  [][\A p \in Procs :
       AttemptThrew(p) =>
         LET s == proc[p].src
         IN /\ cursor'[s].token = proc[p].pre.token
            /\ cursor'[s].etag = proc[p].pre.etag
            /\ cursor'[s].status = "error"
            /\ cursor'[s].count = proc[p].pre.count]_vars

C4_Witness ==
  \E p \in Procs :
    /\ proc[p].op = "syncSource" /\ proc[p].pc = "done" /\ proc[p].res.kind = "threw"
    /\ proc[p].res.err = "other"
    /\ cursor[proc[p].src].status = "error"
    /\ cursor[proc[p].src].count > 0
    /\ cursor[proc[p].src].token # Null \/ cursor[proc[p].src].etag # Null

\* C5: when a sync attempt throws, the Events stored for its source are those stored
\* before the attempt (a failed reconciliation commits nothing).
C5_AllOrNothing ==
  [][\A p \in Procs :
       AttemptThrew(p) => RowsOf(events', proc[p].src) = RowsOf(events, proc[p].src)]_vars

\* the payload a result gives an external id: that of its last occurrence in the list
LastVal(es, i) == es[CHOOSE k \in 1..Len(es) : es[k].ext = i /\ \A j \in (k + 1)..Len(es) : es[j].ext # i].val
Content(ev, s) == {<<r.ext, r.val>> : r \in RowsOf(ev, s)}
ResultContent(es) == {<<i, LastVal(es, i)>> : i \in EventIds(es)}
Rids(ev) == {r.rid : r \in ev}
RecApplied(n) == rec.n = n /\ ~rec.thrown

\* C6 as stated: after a fullRefresh result R is applied to stored events S, the source
\* holds exactly the events of R, and an event whose id is in S and in R is the same
\* stored record as before.
C6_FullRefreshInPlace ==
  (RecApplied(1) /\ rec.res.fullRefresh) =>
    /\ Content(events, rec.src) = ResultContent(rec.res.events)
    /\ \A r \in RowsOf(rec.before, rec.src) :
         r.ext \in EventIds(rec.res.events)
         => \E q \in RowsOf(events, rec.src) : q.rid = r.rid /\ q.ext = r.ext

\* C6 amended: after a fullRefresh result R is applied to stored events S, the source
\* holds one event per id of R with the fields R gives it last, every stored record of
\* the source is a new one (none of S survives, also not for an id in both), and the
\* events of other sources are untouched.
C6_FullRefreshReplaces ==
  (RecApplied(1) /\ rec.res.fullRefresh) =>
    /\ Content(events, rec.src) = ResultContent(rec.res.events)
    /\ Cardinality(RowsOf(events, rec.src)) = Cardinality(EventIds(rec.res.events))
    /\ Rids(RowsOf(events, rec.src)) \cap Rids(rec.before) = {}
    /\ events \ RowsOf(events, rec.src) = rec.before \ RowsOf(rec.before, rec.src)

C6_Witness ==
  /\ RecApplied(1) /\ rec.res.fullRefresh
  /\ \E r \in RowsOf(rec.before, rec.src) :
       r.ext \in EventIds(rec.res.events) /\ <<r.ext, r.val>> \notin Content(events, rec.src)
  /\ \E r \in RowsOf(rec.before, rec.src) : r.ext \notin EventIds(rec.res.events)
  /\ \E i \in RecIds : i \in EventIds(rec.res.events) \ StoredIds(rec.before, rec.src)

\* C7 as stated: applying a result a second time leaves the rows, identities included,
\* that the first application left.
C7_IdempotentRows ==
  RecApplied(2) => events = rec.once

\* an incremental result that deletes no id it also upserts
PlainDelta(res) == ~res.fullRefresh /\ Range(res.deleted) \cap EventIds(res.events) = {}

\* C7 amended: applying a result a second time leaves the same ids with the same field
\* values and as many rows as the first application left; the rows are the same stored
\* records when the result is incremental and deletes no id it upserts, and are all new
\* records when the result is a fullRefresh.
C7_IdempotentContent ==
  RecApplied(2) =>
    /\ \A s \in Sources : Content(events, s) = Content(rec.once, s)
    /\ Cardinality(events) = Cardinality(rec.once)
    /\ PlainDelta(rec.res) => events = rec.once
    /\ rec.res.fullRefresh => Rids(RowsOf(events, rec.src)) \cap Rids(rec.once) = {}

C7_Witness ==
  /\ RecApplied(2)
  /\ PlainDelta(rec.res)
  /\ Len(rec.res.deleted) > 0 /\ Len(rec.res.events) > 1
  /\ rec.before # rec.once
  /\ RowsOf(events, rec.src) # {}
  /\ events = rec.once

\* C8: no two stored Events have the same source and external id.
C8_UniqueIdentity ==
  \A r1, r2 \in events : (r1.src = r2.src /\ r1.ext = r2.ext) => r1 = r2

C8_Witness ==
  \E s \in Sources :
    /\ SourceType[s] = "ical_remote"
    /\ Len(remote[s].entries) = 2
    /\ remote[s].entries[1].uid = remote[s].entries[2].uid
    /\ cursor[s].status = "success" /\ cursor[s].etag = EtagOf(remote[s])
    /\ Cardinality(RowsOf(events, s)) = 1
    /\ \A p \in Procs : ~InFlight(p)

\* C9: when the provider reports unchanged, the attempt returns unchanged with the count
\* the Cursor Record held before the call, leaves that count in the Cursor Record, and
\* writes no Event.
C9_UnchangedShortCircuit ==
  [][\A p \in Procs :
       (AttemptReturned(p) /\ ResultOf(p).unchanged) =>
         /\ Returned(p).unchanged
         /\ Returned(p).count = proc[p].pre.count
         /\ cursor'[proc[p].src].count = proc[p].pre.count
         /\ events' = events
         /\ nextId' = nextId]_vars

C9_Witness ==
  \E p \in Procs :
    /\ proc[p].pc = "done" /\ proc[p].res.kind = "returned" /\ proc[p].res.unchanged
    /\ proc[p].res.count > 0
    /\ cursor[proc[p].src].count = proc[p].res.count
    /\ cursor[proc[p].src].status = "success"

\* C10: when a sync attempt returns normally, the external ids stored for its source are
\* the ids the remote holds at the time the provider read it.
C10_StoreMatchesRemote ==
  [][\A p \in Procs :
       AttemptReturned(p) => StoredIds(events', proc[p].src) = RemoteIds(proc[p].src)]_vars

\* the attempt of p sent the stored token, was answered 410 and repeated the call
\* without a token
FellBack(p) ==
  /\ proc[p].pc = "fetch"
  /\ SourceType[proc[p].src] = "google"
  /\ proc[p].snap.token # Null
  /\ proc[p].req = Null

\* C11: an attempt whose stored token was answered as expired and that gets the answer
\* of the repeated call does not throw for the expiry, its Sync Result says fullRefresh,
\* and the Events stored for the source afterwards are those of the full fetch.
C11_ExpiryFullRefresh ==
  [][\A p \in Procs :
       (FellBack(p) /\ AttemptReturned(p)) =>
         /\ ResultOf(p).fullRefresh
         /\ StoredIds(events', proc[p].src) = EventIds(ResultOf(p).events)]_vars

\* C12: when no sync operation is in flight, no Cursor Record says pending (every
\* operation that wrote pending has written success or error before it ended).
C12_NoPendingAtRest ==
  (\A p \in Procs : ~InFlight(p)) => \A s \in Sources : cursor[s].status # "pending"

\* C13: while an initialize or a provider sync started by syncSource for a source is in
\* flight, the Cursor Record of the source exists and says pending.
C13_PendingWhileInFlight ==
  \A p \in Procs : InFlight(p) => cursor[proc[p].src].status = "pending"

\* C14: a Cursor Record that says error has a lastError, whatever was thrown; one that
\* says success or pending has none.
C14_ErrorHasMessage ==
  \A s \in Sources :
    /\ cursor[s].status = "error" => cursor[s].err # "null"
    /\ cursor[s].status \in {"success", "pending"} => cursor[s].err = "null"

\* C15: a syncSource or forceResync called for a source that does not exist throws
\* SourceNotFound, and called for a disabled source throws SourceDisabled; the call
\* starts no provider call and leaves the Events, the Cursor Records and the provider
\* cache as they were.
C15_RejectedCallChangesNothing ==
  [][\A p \in Procs, s \in Sources :
       ((SyncSourceCall(p, s) \/ ForceResyncCall(p, s)) /\ srcs[s] # "enabled") =>
         /\ proc'[p].pc = "done"
         /\ proc'[p].res.kind = "threw"
         /\ proc'[p].res.err = (IF srcs[s] = "deleted" THEN "SourceNotFound" ELSE "SourceDisabled")
         /\ cursor' = cursor
         /\ events' = events
         /\ providers' = providers]_vars

\* C16: a forceResync of an enabled source initializes a provider of its own (the
\* cached one is evicted), and when its provider sync starts the sync is given no token
\* and no validator and the source has no stored Event.
C16_ForceResyncStartsClean ==
  [][\A p \in Procs :
       /\ \A s \in Sources :
            (ForceResyncCall(p, s) /\ srcs[s] = "enabled" /\ SourceType[s] = "google")
            => proc'[p].pc = "init"
       /\ (proc'[p].op = "forceResync" /\ proc'[p].pc = "fetch" /\ proc[p].pc # "fetch") =>
            /\ proc'[p].req = Null
            /\ proc'[p].snap.token = Null
            /\ proc'[p].snap.etag = Null
            /\ RowsOf(events', proc'[p].src) = {}]_vars

\* SyncService.getSyncStatus -> SyncState.findAll: the sync_state rows joined with their
\* sources (the source ids of the entries returned)
GetSyncStatus == {s \in Sources : cursor[s].status # "absent" /\ srcs[s] # "deleted"}

\* C17: getSyncStatus returns an entry for every existing source, also for one never
\* synced, and none for a deleted source.
C17_StatusListsEverySource ==
  GetSyncStatus = {s \in Sources : srcs[s] # "deleted"}

\* C18: a deleted source has no Cursor Record and no Event, also after a sync of it that
\* was in flight when it was deleted has completed or failed.
C18_NoDanglingRows ==
  \A s \in Sources : srcs[s] = "deleted" => cursor[s] = NoRow /\ RowsOf(events, s) = {}

C18_Witness ==
  \E p \in Procs :
    /\ proc[p].pc = "done" /\ proc[p].res.kind = "threw" /\ proc[p].res.err = "ForeignKey"
    /\ srcs[proc[p].src] = "deleted"
    /\ cursor[proc[p].src] = NoRow
    /\ RowsOf(events, proc[p].src) = {}
    /\ \E q \in Procs : q # p /\ proc[q].src = proc[p].src /\ proc[q].res.kind = "returned"
                        /\ proc[q].res.count > 0

\* C19: between two evictions of a source's cached provider, initialize() completes
\* successfully at most once for the source: whenever an initialization of getProvider
\* completes successfully, the cache holds no instance for that source yet (an eviction
\* is the only step that removes one).
C19_InitializedOnce ==
  [][\A p \in Procs :
       (proc[p].pc = "init" /\ proc'[p].pc = "fetch") => proc[p].src \notin providers]_vars

\* C20: a remote event without a start time never fails the sync of its source: no
\* Cursor Record ever carries the error of a missing start time (the event is left out
\* of the Sync Result and the sync ends with status = success).
C20_NoStartTolerated ==
  \A s \in Sources : ~(cursor[s].status = "error" /\ cursor[s].err = "NoStart")

\* C21: normalizeEvent of every provider kind gives a status in {confirmed, tentative,
\* cancelled} whatever the raw event's status holds (missing, unmapped or unknown), so
\* every Event stored from it has such a status.
C21_StatusInDomain ==
  \A k \in 1..Len(norm.outs) : ~norm.outs[k].thrown => norm.outs[k].status \in EventStatuses

\* C22: two runs of normalizeEvent on the same raw event of the same source give the
\* same externalId, with and without a native id.
C22_StableExternalId ==
  (Len(norm.outs) = 2 /\ ~norm.outs[1].thrown /\ ~norm.outs[2].thrown)
    => norm.outs[1].ext = norm.outs[2].ext

\* C23: a syncAll batch processes its sources one at a time in enumeration order: the
\* sources already in success or failed are the ones enumerated before the source in
\* flight and the queue holds the ones after it; only the source in flight is pending;
\* the batch moves to the next source in the very step in which the attempt on the
\* current one returned or threw and its Cursor Record was written.
C23_Sequential ==
  /\ [](\A p \in Procs :
          BatchRunning(p) =>
            LET e == proc[p].enum
                k == Len(proc[p].success) + Len(proc[p].failed) + 1
            IN /\ k <= Len(e)
               /\ proc[p].src = e[k]
               /\ proc[p].queue = SubSeq(e, k + 1, Len(e))
               /\ {proc[p].success[j].src : j \in 1..Len(proc[p].success)} \cup Range(proc[p].failed)
                    = {e[j] : j \in 1..(k - 1)}
               /\ cursor[e[k]].status = "pending"
               /\ \A j \in 1..Len(e) : j # k => cursor[e[j]].status # "pending")
  /\ [][\A p \in Procs :
          (BatchRunning(p) /\ proc'[p].src # proc[p].src) =>
            /\ AttemptThrew(p) \/ AttemptReturned(p)
            /\ cursor'[proc[p].src].status \in {"success", "error"}]_vars

C23_Witness ==
  \E p \in Procs :
    /\ BatchRunning(p)
    /\ Len(proc[p].enum) = 2
    /\ proc[p].src = proc[p].enum[2]
    /\ cursor[proc[p].enum[1]].status \in {"success", "error"}
    /\ cursor[proc[p].src].status = "pending"

\* C24: when a syncSource attempt returns normally with unchanged = false, the Cursor
\* Record of its source has status success and no error, the cursorToken and validator
\* of the Sync Result's new cursor state, and as eventCount the number of Events stored
\* for the source after reconciliation, which is the eventsCount returned.
C24_SuccessRecord ==
  [][\A p \in Procs :
       (AttemptReturned(p) /\ ~Returned(p).unchanged) =>
         LET s == proc[p].src
         IN /\ cursor'[s].status = "success"
            /\ cursor'[s].err = "null"
            /\ cursor'[s].token = ResultOf(p).token
            /\ cursor'[s].etag = ResultOf(p).etag
            /\ cursor'[s].count = Cardinality(RowsOf(events', s))
            /\ Returned(p).count = cursor'[s].count]_vars

C24_Witness ==
  \E p \in Procs :
    /\ proc[p].op = "syncSource" /\ proc[p].pc = "done" /\ proc[p].res.kind = "returned"
    /\ ~proc[p].res.unchanged
    /\ proc[p].res.count = 2
    /\ cursor[proc[p].src].status = "success"
    /\ cursor[proc[p].src].count = 2
    /\ Cardinality(RowsOf(events, proc[p].src)) = 2
    /\ cursor[proc[p].src].token # Null \/ cursor[proc[p].src].etag # Null

\* C25: applying an incremental Sync Result with deleted ids D and events E to a source
\* storing the ids S leaves the ids (S minus D) union ids(E): an id in both D and E is
\* stored, with the fields E gives it; every stored Event whose id is in neither D nor E
\* is the same record with the same fields; the other source's Events are untouched.
C25_IncrementalDelta ==
  (RecApplied(1) /\ ~rec.res.fullRefresh) =>
    LET D == Range(rec.res.deleted)
        E == EventIds(rec.res.events)
        S == StoredIds(rec.before, rec.src)
    IN /\ StoredIds(events, rec.src) = (S \ D) \cup E
       /\ \A i \in E : <<i, LastVal(rec.res.events, i)>> \in Content(events, rec.src)
       /\ \A r \in RowsOf(rec.before, rec.src) : r.ext \notin (D \cup E) => r \in events
       /\ events \ RowsOf(events, rec.src) = rec.before \ RowsOf(rec.before, rec.src)

C25_Witness ==
  /\ RecApplied(1) /\ ~rec.res.fullRefresh
  /\ \E i \in Range(rec.res.deleted) \cap EventIds(rec.res.events) :
       i \in StoredIds(rec.before, rec.src) /\ i \in StoredIds(events, rec.src)
  /\ \E r \in RowsOf(rec.before, rec.src) :
       r.ext \notin (Range(rec.res.deleted) \cup EventIds(rec.res.events)) /\ r \in events
  /\ \E i \in EventIds(rec.res.events) : i \notin StoredIds(rec.before, rec.src)

\* C26: a sync or forced resync of a source, succeeding or failing, leaves the Events
\* and the Cursor Record of every other source as they are: whenever the Cursor Record or
\* the Events of a source t change in a step, the step is one of an operation that is
\* working on t (before or after the step).
C26_OtherSourcesUntouched ==
  [][\A t \in Sources :
       (cursor'[t] # cursor[t] \/ RowsOf(events', t) # RowsOf(events, t)) =>
         \E p \in Procs : /\ proc'[p] # proc[p]
                          /\ proc[p].src = t \/ proc'[p].src = t
                          /\ \A q \in Procs \ {p} : proc'[q] = proc[q]]_vars

\* a full refresh of the feed source has replaced its Events while the other source held
\* Events with the same external ids, and those are still stored
C26_Witness ==
  \E p \in Procs, t \in Sources :
    /\ proc[p].op \in {"syncSource", "forceResync"}
    /\ proc[p].pc = "done" /\ proc[p].res.kind = "returned" /\ ~proc[p].res.unchanged
    /\ SourceType[proc[p].src] = "ical_remote"
    /\ t # proc[p].src
    /\ cursor[t].status = "success"
    /\ StoredIds(events, t) \cap StoredIds(events, proc[p].src) # {}
    /\ \A r \in RowsOf(events, t), q \in RowsOf(events, proc[p].src) : r.rid < q.rid

\* C27: when initialize() of a source's provider fails, the sync attempt ends with
\* status error and lastError set, the cursorToken, the validator and the Events of the
\* source as they were, and no provider cached for the source, so that the next sync
\* attempt of the source awaits initialize() again.
C27_InitFailure ==
  [][\A p \in Procs :
       (proc[p].pc = "init" /\ AttemptThrew(p)) =>
         LET s == proc[p].src
         IN /\ cursor'[s].status = "error"
            /\ cursor'[s].err # "null"
            /\ cursor'[s].token = cursor[s].token
            /\ cursor'[s].etag = cursor[s].etag
            /\ RowsOf(events', s) = RowsOf(events, s)
            /\ s \notin providers'
            /\ BeginSync(s, cursor', providers').pc = "init"]_vars

\* C28: the default sync of a provider kind without incremental support returns its
\* full fetch with fullRefresh = true and an empty cursor state, so that after the
\* reconciliation the source stores exactly the ids fetched: an event that disappeared
\* from the source is removed.
C28_DefaultSyncRefreshes ==
  RecApplied(1) =>
    /\ rec.res.fullRefresh
    /\ rec.res.token = Null /\ rec.res.etag = Null
    /\ StoredIds(events, rec.src) = EventIds(rec.res.events)

\* C29: a sync of a conditional-fetch source returns one of three shapes: with no stored
\* validator, fullRefresh with the validator of that fetch; with a stored validator that
\* matches the source, unchanged with the same validator; with a stored validator that
\* no longer matches, fullRefresh with the new validator.
C29_ConditionalShapes ==
  \A c \in DOMAIN cond.call :
    (cond.call[c].pc = "done" /\ ~cond.call[c].thrown) =>
      LET k == cond.call[c]
      IN IF k.stored # Null /\ k.stored = k.seen
         THEN k.res.unchanged /\ ~k.res.fullRefresh /\ k.res.etag = k.stored
         ELSE k.res.fullRefresh /\ ~k.res.unchanged /\ k.res.etag = k.seen

\* C30: no two keys of the provider cache hold the same instance; the instance under the
\* key of a source, and the instance getProvider returns for a source, was constructed
\* from a descriptor with that source's id and type; clearProvider(s) removes the
\* instance of s and leaves every other entry as it is.
C30_InstancePerSource ==
  /\ [](\A k1, k2 \in DOMAIN cache.map :
          (k1 # k2 /\ cache.map[k1] # NoInst /\ cache.map[k2] # NoInst)
            => cache.map[k1].inst # cache.map[k2].inst)
  /\ [](\A k \in DOMAIN cache.map :
          cache.map[k] # NoInst => cache.map[k].type = k[1] /\ cache.map[k].id = k[2])
  /\ [](\A c \in DOMAIN cache.call :
          (cache.call[c].pc = "done" /\ ~cache.call[c].thrown)
            => /\ cache.call[c].ret.id = cache.call[c].src.id
               /\ cache.call[c].ret.type = cache.call[c].src.type)
  /\ [][\A s \in Sources :
          ClearProvider(s) =>
            LET key == <<cache.types[s], s>>
            IN /\ cache'.map[key] = NoInst
               /\ \A k \in DOMAIN cache.map : k # key => cache'.map[k] = cache.map[k]]_vars

\* both sources have the same type and each has its own cached instance, three
\* instances having been made in all
C30_Witness ==
  /\ cache.types # <<>>
  /\ cache.types[1] = cache.types[2]
  /\ cache.map[<<cache.types[1], 1>>] # NoInst
  /\ cache.map[<<cache.types[2], 2>>] # NoInst
  /\ cache.map[<<cache.types[1], 1>>].inst < cache.map[<<cache.types[2], 2>>].inst
  /\ cache.made = MaxCalls + 1

\* this step is one of a syncSource or forceResync call of p: the call itself or the
\* completion of one of its awaited provider calls
OutOfBandStep(p) ==
  /\ proc'[p].op \in {"syncSource", "forceResync"}
  /\ \/ proc'[p] # proc[p]
     \/ \E s \in Sources : SyncSourceCall(p, s) \/ ForceResyncCall(p, s)

\* C31: syncSource and forceResync do not touch the batch-in-progress flag: none of
\* their steps changes it or any batch, they are never answered "skipped" and go on to
\* their end while a batch runs; the flag is set exactly while a batch is running, so
\* after any of them a syncAll is skipped only when a batch is running and is
\* skipped whenever one is.
C31_OutOfBand ==
  /\ [](syncing <=> \E q \in Procs : BatchRunning(q))
  /\ [][\A p \in Procs :
          /\ OutOfBandStep(p) =>
               /\ syncing' = syncing
               /\ proc'[p].res.kind # "skipped"
               /\ \A q \in Procs \ {p} : proc'[q] = proc[q]
          /\ SyncAllCall(p) =>
               (proc'[p].res.kind = "skipped" <=> \E q \in Procs \ {p} : BatchRunning(q))]_vars

\* a syncSource or forceResync called after the batch began has returned while the
\* batch is still running
C31_Witness ==
  \E p, q \in Procs :
    /\ BatchRunning(q)
    /\ syncing
    /\ proc[p].op \in {"syncSource", "forceResync"}
    /\ proc[p].pc = "done" /\ proc[p].res.kind = "returned"
    /\ proc[p].src = proc[q].src

\* C32: between the first and the last store call that one sync attempt makes after its
\* provider call (event deletes, upsert, count, the Cursor Record write), no other
\* syncSource, forceResync or batch sync of the same source takes a step: none is
\* called and none goes on.
C32_StoreCallsTogether ==
  [][\A c, d \in Procs :
       (c # d /\ run.call[c].muts > 0 /\ run.call[c].pc \in StorePcs /\ run'.call[d] # run.call[d])
       => run'.call[d].src # run.call[c].src]_vars

\* a full refresh has deleted the Events of its source and stands before its upsert
\* while another call for the same source waits for its provider
C32_Witness ==
  \E c, d \in Procs :
    /\ c # d
    /\ run.call[c].muts > 0
    /\ run.call[c].pc = "bulkUpsert"
    /\ run.call[c].res.fullRefresh
    /\ run.call[d].pc = "provider"
    /\ run.call[d].src = run.call[c].src
    /\ run.call[d].op = "forceResync"

\* C33: for every type the sources table accepts getProvider builds a provider: no
\* sync of a stored source ends with the unknown-type error of createProvider.
C33_EveryKindHasProvider ==
  \A s \in Sources : desc.call # <<>> => desc.call[s].out # "UnknownSourceType"

\* C37: a sync of a source whose config was updated is performed with the config stored
\* at the time of the sync, also when a provider for the source was cached before the
\* update.
C37_UpdatedConfigUsed ==
  \A s \in Sources :
    (desc.call # <<>> /\ desc.call[s].out = "synced") => desc.call[s].used = desc.call[s].stored

\* C34: whenever no sync of a source is in flight and its Cursor Record says success,
\* the record's count is the number of Events stored for the source.
C34_CountMatchesStore ==
  \A s \in Sources :
    ((\A p \in Procs : ~(InFlight(p) /\ proc[p].src = s)) /\ cursor[s].status = "success")
    => cursor[s].count = Cardinality(RowsOf(events, s))

\* C35: one syncEvents call falls back to a request without cursor at most once.
C35_OneFallback == svc.kind # "none" => svc.fallbacks <= 1

====
